---- MODULE Spec2Model ----
(***************************************************************************)
(* Visual-Content-Mapper: the persistence layer (utils/storageUtils, the   *)
(* second half of src/types.ts), the pure comparison of two analyses, and  *)
(* the batch / competitor orchestrators of the analysis service            *)
(* (src/unnamed/part_002).                                                 *)
(*                                                                         *)
(* localStorage is modelled key by key.  The text stored under a key is    *)
(* modelled by the JSON value it parses to, tagged with its JSON type:     *)
(*   [t |-> "absent"]   getItem returns null                               *)
(*   [t |-> "arr", v |-> <<...>>]   an array                               *)
(*   [t |-> "obj", v |-> ...]       an object                              *)
(*   [t |-> "other"]    a parseable value that is neither (a number, ...)  *)
(*   [t |-> "corrupt"]  a text JSON.parse rejects                          *)
(***************************************************************************)
EXTENDS Integers, Sequences, FiniteSets, TLC

VARIABLES
    history,          \* localStorage['vcm_analysis_history']
    brandVoice,       \* localStorage['vcm_brand_voice']
    preferences,      \* localStorage['vcm_preferences']
    recentKeywords,   \* localStorage['vcm_recent_keywords']
    recentAudiences,  \* localStorage['vcm_recent_audiences']
    clock,            \* the value Date.now() returns next
    lastCall,         \* the persistence operation called last
    outcome,          \* "returned" or "threw": how that call ended
    ret,              \* the value that call returned
    calls,            \* ghost: the number of persistence calls made
    saveLog,          \* ghost: the entries built by saveAnalysisToHistory, in call order
    writeFailures,    \* ghost: the number of localStorage.setItem calls that threw
    prefLog,          \* ghost: per field, the value of the last savePreferences call that gave it
    lastArg,          \* ghost: the argument of the last savePreferences / addRecent* / delete call
    kwOrder,          \* ghost: the keywords given to addRecentKeyword, in order of first use
    audOrder          \* ghost: the audiences given to addRecentAudience, in order of first use

VARIABLES
    analysis1,        \* compareAnalyses: the first argument
    analysis2,        \* compareAnalyses: the second argument
    comparison        \* compareAnalyses: the value returned, once called

cmpVars == <<analysis1, analysis2, comparison>>

VARIABLES
    batch,            \* a run of actionBatchAnalyze: its arguments, locals and position
    competitor        \* a run of actionCompetitorComparison, likewise

orchVars == <<batch, competitor>>

VARIABLES
    dispatcher,       \* useKeyboardShortcuts: its arguments, the last keydown and what it did
    exporter,         \* the export formatters: the result given and the text produced
    exported          \* the text exportHistoryAsJSON returned, and what the readers returned then

VARIABLES
    app,              \* the state of the App component, its requests in flight
    prompter          \* the arguments of an enhanced analysis and the instruction built

pageVars == <<app, prompter>>

uiVars == <<dispatcher, exporter, exported, pageVars>>

storeVars == <<history, brandVoice, preferences, recentKeywords, recentAudiences,
               clock, lastCall, outcome, ret, calls, saveLog, writeFailures, prefLog, lastArg,
               kwOrder, audOrder>>

----------------------------------------------------------------------------
(* Bounds of the model *)

MaxSaves == 52
MaxWriteFailures == 1
MaxStoreCalls == 4
MaxRoundTripCalls == 5
MaxContentLen == 2
MaxStatSaves == 3
MaxRequests == 2
MaxDeleteCalls == 4
MaxPrefSaves == 2
MaxKeywords == 22
MaxAudiences == 12
MaxRepeats == 2
MaxOtherList == 1
MaxSections == 2
MaxImages == 3
MaxCompetitors == 2

(* Program constants *)

MAX_HISTORY == 50
MAX_RECENT_KEYWORDS == 20
MAX_RECENT_AUDIENCES == 10
MAX_TOP_KEYWORDS == 10
TicksPerDay == 2

----------------------------------------------------------------------------
(* Sequence helpers: the Array methods the code uses *)

Min(a, b) == IF a < b THEN a ELSE b

\* Array.prototype.unshift(x)
Unshift(s, x) == <<x>> \o s

\* Array.prototype.splice(n): keeps the first n elements
Splice(s, n) == IF Len(s) > n THEN SubSeq(s, 1, n) ELSE s

\* Array.prototype.includes(x)
Includes(s, x) == \E i \in 1..Len(s) : s[i] = x

----------------------------------------------------------------------------
(* Stored values *)

Absent == [t |-> "absent", v |-> <<>>]
Arr(s) == [t |-> "arr", v |-> s]
Obj(o) == [t |-> "obj", v |-> o]
Other == [t |-> "other", v |-> <<>>]
Corrupt == [t |-> "corrupt", v |-> <<>>]

\* An element null of a stored array
NullItem == [t |-> "null"]

\* The AnalysisHistory entry saveAnalysisToHistory builds
NewEntry(result, config, now, rnd, ts) ==
    [t |-> "obj", id |-> <<now, rnd>>, result |-> result, timestamp |-> ts, config |-> config]

\* getAnalysisHistory(): the parsed value, or [] when the key is absent or
\* JSON.parse throws.  The result is whatever JSON.parse returned: an array or not.
getAnalysisHistory ==
    CASE history.t = "absent" -> Arr(<<>>)
      [] history.t = "corrupt" -> Arr(<<>>)
      [] OTHER -> history

----------------------------------------------------------------------------
(* Values a call returns *)

Undefined == [t |-> "undefined", v |-> <<>>]
Null == [t |-> "null", v |-> <<>>]
Bool(b) == [t |-> "bool", v |-> b]
Val(x) == [t |-> "val", v |-> x]

\* What every operation records about the call: its name, how it ended, its value
Called(name, out, r) ==
    /\ lastCall' = name
    /\ outcome' = out
    /\ ret' = r
    /\ calls' = calls + 1

\* localStorage.setItem(key, text) that throws (quota exceeded): nothing is stored
WriteFails == writeFailures' = writeFailures + 1

----------------------------------------------------------------------------
(* Analysis history: saveAnalysisToHistory .. clearAnalysisHistory *)

\* history.push(newEntry) in place of unshift
PrependAndCap_Push(h, e) == Splice(Append(h, e), MAX_HISTORY)

\* history.unshift(newEntry); if (history.length > 50) history.splice(50)
PrependAndCap(h, e) == Splice(Unshift(h, e), MAX_HISTORY)

HasNull(s) == \E i \in 1..Len(s) : s[i].t = "null"

\* saveAnalysisToHistory(result, config).  rnd is the Math.random() suffix of the
\* id, tick the time that passes until the next call, fail whether setItem throws.
\* The try block covers the whole body: unshift on a stored value that is no
\* array throws a TypeError, caught like a failing setItem.
saveAnalysisToHistory(result, config, rnd, tick, fail) ==
    LET h == getAnalysisHistory
        newEntry == NewEntry(result, config, clock, rnd, clock)
    IN  /\ Called("saveAnalysisToHistory", "returned", Undefined)
        /\ clock' = clock + tick
        /\ saveLog' = Append(saveLog, newEntry)
        /\ IF h.t # "arr"
             THEN UNCHANGED <<history, writeFailures>>
             ELSE IF fail
                    THEN WriteFails /\ UNCHANGED history
                    ELSE history' = Arr(PrependAndCap(h.v, newEntry))
                         /\ UNCHANGED writeFailures
        /\ UNCHANGED <<brandVoice, preferences, recentKeywords, recentAudiences,
                       prefLog, lastArg, kwOrder, audOrder>>

\* history.find(item => item.id === id): the index of the first element the
\* callback stops at, a match or a null element (item.id throws there); 0 if none
FindStop(s, id) ==
    LET stops == {i \in 1..Len(s) : s[i].t = "null" \/ s[i].id = id}
    IN  IF stops = {} THEN 0 ELSE CHOOSE i \in stops : \A j \in stops : i <= j

\* getAnalysisById(id): no try block.  find is not a function of a value that
\* is no array, and item.id throws on a null element.
getAnalysisByIdResult(id) ==
    LET h == getAnalysisHistory
        i == FindStop(h.v, id)
    IN  IF h.t # "arr" THEN [out |-> "threw", r |-> Undefined]
        ELSE IF i = 0 THEN [out |-> "returned", r |-> Null]
        ELSE IF h.v[i].t = "null" THEN [out |-> "threw", r |-> Undefined]
        ELSE [out |-> "returned", r |-> Val(h.v[i])]

getAnalysisById(id) ==
    LET res == getAnalysisByIdResult(id)
    IN  /\ Called("getAnalysisById", res.out, res.r)
        /\ UNCHANGED <<history, brandVoice, preferences, recentKeywords, recentAudiences,
                       clock, saveLog, writeFailures, prefLog, lastArg, kwOrder, audOrder>>

\* Only the first record with the id removed (findIndex and splice)
FilterOut_First(s, id) ==
    LET hits == {i \in 1..Len(s) : s[i].id = id}
        first == CHOOSE i \in hits : \A j \in hits : i <= j
    IN  IF hits = {} THEN s
        ELSE [k \in 1..(Len(s) - 1) |-> IF k < first THEN s[k] ELSE s[k + 1]]

\* history.filter(item => item.id !== id)
FilterOut(s, id) == SelectSeq(s, LAMBDA item : item.id # id)

\* deleteAnalysisFromHistory(id): filter on a value that is no array, or on an
\* array with a null element, throws inside the try block; nothing is written.
deleteAnalysisFromHistory(id, fail) ==
    LET h == getAnalysisHistory
    IN  /\ Called("deleteAnalysisFromHistory", "returned", Undefined)
        /\ lastArg' = id
        /\ IF h.t # "arr" \/ HasNull(h.v)
             THEN UNCHANGED <<history, writeFailures>>
             ELSE IF fail
                    THEN WriteFails /\ UNCHANGED history
                    ELSE history' = Arr(FilterOut(h.v, id)) /\ UNCHANGED writeFailures
        /\ UNCHANGED <<brandVoice, preferences, recentKeywords, recentAudiences,
                       clock, saveLog, prefLog, kwOrder, audOrder>>

\* clearAnalysisHistory(): localStorage.removeItem
clearAnalysisHistory ==
    /\ Called("clearAnalysisHistory", "returned", Undefined)
    /\ history' = Absent
    /\ UNCHANGED <<brandVoice, preferences, recentKeywords, recentAudiences,
                   clock, saveLog, writeFailures, prefLog, lastArg, kwOrder, audOrder>>

\* getAnalysisHistory() called by a client
getAnalysisHistoryCall ==
    /\ Called("getAnalysisHistory", "returned", getAnalysisHistory)
    /\ UNCHANGED <<history, brandVoice, preferences, recentKeywords, recentAudiences,
                   clock, saveLog, writeFailures, prefLog, lastArg, kwOrder, audOrder>>

----------------------------------------------------------------------------
(* Brand voice: a singleton, overwritten as a whole *)

\* getBrandVoice(): the parsed profile, or null when absent or unparseable
getBrandVoice ==
    CASE brandVoice.t = "absent" -> Null
      [] brandVoice.t = "corrupt" -> Null
      [] OTHER -> brandVoice

saveBrandVoice(profile, fail) ==
    /\ Called("saveBrandVoice", "returned", Undefined)
    /\ IF fail
         THEN WriteFails /\ UNCHANGED brandVoice
         ELSE brandVoice' = Obj(profile) /\ UNCHANGED writeFailures
    /\ UNCHANGED <<history, preferences, recentKeywords, recentAudiences,
                   clock, saveLog, prefLog, lastArg, kwOrder, audOrder>>

clearBrandVoice ==
    /\ Called("clearBrandVoice", "returned", Undefined)
    /\ brandVoice' = Absent
    /\ UNCHANGED <<history, preferences, recentKeywords, recentAudiences,
                   clock, saveLog, writeFailures, prefLog, lastArg, kwOrder, audOrder>>

----------------------------------------------------------------------------
(* User preferences *)

PrefFields == {"autoSaveHistory", "defaultExportFormat", "enableVariants", "variantCount",
               "theme", "showAdvancedMetrics", "autoLoadBrandVoice"}

DEFAULT_PREFERENCES ==
    [autoSaveHistory |-> "true", defaultExportFormat |-> "markdown", enableVariants |-> "true",
     variantCount |-> "3", theme |-> "dark", showAdvancedMetrics |-> "true",
     autoLoadBrandVoice |-> "true"]

\* The values of a field of UserPreferences (a number or a boolean by its JSON text)
PrefValues(f) ==
    CASE f = "defaultExportFormat" -> {"markdown", "json", "html", "csv"}
      [] f = "theme" -> {"dark", "light", "auto"}
      [] f = "variantCount" -> {"3", "5"}
      [] OTHER -> {"true", "false"}

\* { ...b, ...a }: the operands in the wrong order
Spread_Swapped(a, b) == [f \in DOMAIN a \cup DOMAIN b |-> IF f \in DOMAIN a THEN a[f] ELSE b[f]]

\* { ...a, ...b }
Spread(a, b) == [f \in DOMAIN a \cup DOMAIN b |-> IF f \in DOMAIN b THEN b[f] ELSE a[f]]

\* getPreferences(): the defaults, overridden by the stored object's own fields.
\* A stored value that is no object (a number) spreads to nothing.
getPreferences ==
    IF preferences.t = "obj" THEN Spread(DEFAULT_PREFERENCES, preferences.v)
    ELSE DEFAULT_PREFERENCES

\* savePreferences(preferences): merge over the current record and store it
savePreferences(partial, fail) ==
    LET current == getPreferences
        updated == Spread(current, partial)
    IN  /\ Called("savePreferences", "returned", Undefined)
        /\ lastArg' = partial
        /\ prefLog' = [f \in DOMAIN prefLog \cup DOMAIN partial |->
                           IF f \in DOMAIN partial THEN partial[f] ELSE prefLog[f]]
        /\ IF fail
             THEN WriteFails /\ UNCHANGED preferences
             ELSE preferences' = Obj(updated) /\ UNCHANGED writeFailures
        /\ UNCHANGED <<history, brandVoice, recentKeywords, recentAudiences,
                       clock, saveLog, kwOrder, audOrder>>

getPreferencesCall ==
    /\ Called("getPreferences", "returned", Val(getPreferences))
    /\ UNCHANGED <<history, brandVoice, preferences, recentKeywords, recentAudiences,
                   clock, saveLog, writeFailures, prefLog, lastArg, kwOrder, audOrder>>

----------------------------------------------------------------------------
(* Recent keywords and audiences *)

\* getRecentKeywords() / getRecentAudiences(): the parsed value, [] when absent
\* or unparseable
getRecent(stored) ==
    CASE stored.t = "absent" -> Arr(<<>>)
      [] stored.t = "corrupt" -> Arr(<<>>)
      [] OTHER -> stored

getRecentKeywords == getRecent(recentKeywords)
getRecentAudiences == getRecent(recentAudiences)

\* if (!recent.includes(x)) with the test dropped
IsNew_Always(recent, x) == TRUE

\* if (!recent.includes(x))
IsNew(recent, x) == ~ Includes(recent, x)

\* recent.unshift(x) with the splice dropped
AddRecent_NoCap(recent, x, cap) == Unshift(recent, x)

\* recent.unshift(x); if (recent.length > cap) recent.splice(cap)
AddRecent(recent, x, cap) == Splice(Unshift(recent, x), cap)

NoteFirstUse(order, x) == IF Includes(order, x) THEN order ELSE Append(order, x)

\* addRecentKeyword(keyword).  Nothing is written when the keyword is in the list;
\* includes on a stored value that is no array throws inside the try block.
addRecentKeyword(keyword, fail) ==
    LET recent == getRecentKeywords
    IN  /\ Called("addRecentKeyword", "returned", Undefined)
        /\ lastArg' = keyword
        /\ kwOrder' = NoteFirstUse(kwOrder, keyword)
        /\ IF recent.t # "arr" \/ ~ IsNew(recent.v, keyword)
             THEN UNCHANGED <<recentKeywords, writeFailures>>
             ELSE IF fail
                    THEN WriteFails /\ UNCHANGED recentKeywords
                    ELSE recentKeywords' = Arr(AddRecent(recent.v, keyword, MAX_RECENT_KEYWORDS))
                         /\ UNCHANGED writeFailures
        /\ UNCHANGED <<history, brandVoice, preferences, recentAudiences,
                       clock, saveLog, prefLog, audOrder>>

addRecentAudience(audience, fail) ==
    LET recent == getRecentAudiences
    IN  /\ Called("addRecentAudience", "returned", Undefined)
        /\ lastArg' = audience
        /\ audOrder' = NoteFirstUse(audOrder, audience)
        /\ IF recent.t # "arr" \/ ~ IsNew(recent.v, audience)
             THEN UNCHANGED <<recentAudiences, writeFailures>>
             ELSE IF fail
                    THEN WriteFails /\ UNCHANGED recentAudiences
                    ELSE recentAudiences' = Arr(AddRecent(recent.v, audience, MAX_RECENT_AUDIENCES))
                         /\ UNCHANGED writeFailures
        /\ UNCHANGED <<history, brandVoice, preferences, recentKeywords,
                       clock, saveLog, prefLog, kwOrder>>

getRecentKeywordsCall ==
    /\ Called("getRecentKeywords", "returned", getRecentKeywords)
    /\ UNCHANGED <<history, brandVoice, preferences, recentKeywords, recentAudiences,
                   clock, saveLog, writeFailures, prefLog, lastArg, kwOrder, audOrder>>

----------------------------------------------------------------------------
(* Export and import of the whole store *)

\* The parsed form of a JSON text given to importHistoryFromJSON or produced by
\* exportHistoryAsJSON.  kind: "unparseable" (JSON.parse throws), "null" (the
\* text null) or "object"; a field is Absent when it is missing or falsy.
Payload(h, b, p) == [kind |-> "object", history |-> h, brandVoice |-> b, preferences |-> p]
Unparseable == [kind |-> "unparseable", history |-> Absent, brandVoice |-> Absent,
                preferences |-> Absent]
NullPayload == [kind |-> "null", history |-> Absent, brandVoice |-> Absent,
                preferences |-> Absent]

\* if (data.field): arrays (also the empty one), objects and non-zero numbers
Truthy(x) == x.t \in {"arr", "obj", "other"}

\* exportHistoryAsJSON(): history, brandVoice (null when none) and preferences
exportHistoryAsJSON_text ==
    Payload(getAnalysisHistory,
            IF getBrandVoice.t = "null" THEN Absent ELSE getBrandVoice,
            Obj(getPreferences))

exportHistoryAsJSON ==
    /\ Called("exportHistoryAsJSON", "returned", Val(exportHistoryAsJSON_text))
    /\ UNCHANGED <<history, brandVoice, preferences, recentKeywords, recentAudiences,
                   clock, saveLog, writeFailures, prefLog, lastArg, kwOrder, audOrder>>

\* The number of setItem calls an import of data makes when none of them throws
WritesOf(data) ==
    (IF Truthy(data.history) THEN 1 ELSE 0) + (IF Truthy(data.brandVoice) THEN 1 ELSE 0)
        + (IF Truthy(data.preferences) THEN 1 ELSE 0)

\* importHistoryFromJSON(jsonString).  failAt = k > 0: the k-th setItem throws.
\* Each field present is written as it is, in the order history, brandVoice,
\* preferences; a write that throws ends the call with false, the earlier
\* writes stay.
importHistoryFromJSON(data, failAt) ==
    LET wH == IF Truthy(data.history) THEN 1 ELSE 0
        wB == wH + (IF Truthy(data.brandVoice) THEN 1 ELSE 0)
        wP == wB + (IF Truthy(data.preferences) THEN 1 ELSE 0)
        failed == failAt > 0 /\ failAt <= wP
        reached(k) == ~failed \/ k < failAt
        ok == data.kind = "object" /\ ~failed
    IN  /\ Called("importHistoryFromJSON", "returned", Bool(ok))
        /\ history' = IF data.kind = "object" /\ Truthy(data.history) /\ reached(wH)
                        THEN data.history ELSE history
        /\ brandVoice' = IF data.kind = "object" /\ Truthy(data.brandVoice) /\ reached(wB)
                           THEN data.brandVoice ELSE brandVoice
        /\ preferences' = IF data.kind = "object" /\ Truthy(data.preferences) /\ reached(wP)
                            THEN data.preferences ELSE preferences
        /\ writeFailures' = IF data.kind = "object" /\ failed
                              THEN writeFailures + 1 ELSE writeFailures
        /\ lastArg' = data
        /\ UNCHANGED <<recentKeywords, recentAudiences, clock, saveLog, prefLog,
                       kwOrder, audOrder>>

----------------------------------------------------------------------------
(* Statistics *)

RECURSIVE SumScores(_)
\* history.reduce((sum, item) => sum + item.result.overallSeoScore, 0)
SumScores(s) ==
    IF s = <<>> THEN 0 ELSE s[1].result.overallSeoScore + SumScores(Tail(s))

\* counts.set(key, (counts.get(key) || 0) + 1) for each key in turn, then
\* Array.from(counts.entries()): one entry a key, in the order of first
\* insertion, with the number of times the key was met
CountEntries(keys) ==
    LET firstAt == SelectSeq([i \in 1..Len(keys) |-> i],
                             LAMBDA i : \A j \in 1..(i - 1) : keys[j] # keys[i])
    IN  [p \in 1..Len(firstAt) |->
            [key |-> keys[firstAt[p]],
             count |-> Cardinality({j \in 1..Len(keys) : keys[j] = keys[firstAt[p]]})]]

\* array.map(f)
MapSeq(s, f(_)) == [i \in 1..Len(s) |-> f(s[i])]

\* Array.prototype.sort(compare) for a compare function that is the difference
\* of the ranks of its arguments.  The sort is stable: an element comes after
\* those of a smaller rank and after the earlier ones of its own rank.
StableSort(entries, rank(_)) ==
    LET n == Len(entries)
        place(i) == Cardinality({j \in 1..n :
                        \/ rank(entries[j]) < rank(entries[i])
                        \/ rank(entries[j]) = rank(entries[i]) /\ j <= i})
    IN  [p \in 1..n |-> entries[CHOOSE i \in 1..n : place(i) = p]]

\* The entries left in the order of the Map
SortByCountDesc_Unsorted(entries) == entries

\* .sort((a, b) => b.count - a.count)
SortByCountDesc(entries) == StableSort(entries, LAMBDA a : 0 - a.count)

\* .sort((a, b) => new Date(a.date).getTime() - new Date(b.date).getTime())
SortByDate(entries) == StableSort(entries, LAMBDA a : a.key)

\* .slice(0, n)
Slice(s, n) == SubSeq(s, 1, Min(Len(s), n))

RECURSIVE AllKeywords(_)
\* The keywords met by history.forEach(item => item.config.keywords.forEach(...))
AllKeywords(h) ==
    IF h = <<>> THEN <<>> ELSE h[1].config.keywords \o AllKeywords(Tail(h))

\* new Date(item.timestamp).toLocaleDateString(): the day a timestamp falls on
DayOf(timestamp) == timestamp \div TicksPerDay

\* The record getAnalysisStatistics returns for a list of well-formed records;
\* averageSeoScore is the fraction <<sum, totalAnalyses>>
StatisticsOf(h) ==
    [totalAnalyses |-> Len(h),
     scoreSum |-> SumScores(h),
     averageSeoScore |-> <<SumScores(h), Len(h)>>,
     topKeywords |-> Slice(SortByCountDesc(CountEntries(AllKeywords(h))), MAX_TOP_KEYWORDS),
     analysisOverTime |-> SortByDate(CountEntries(MapSeq(h, LAMBDA item : DayOf(item.timestamp)))),
     topPageTypes |-> SortByCountDesc(CountEntries(MapSeq(h, LAMBDA item : item.result.pageType)))]

\* if (history.length === 0) return {...}
EmptyStatistics ==
    [totalAnalyses |-> 0, scoreSum |-> 0, averageSeoScore |-> <<0, 1>>, topKeywords |-> <<>>,
     analysisOverTime |-> <<>>, topPageTypes |-> <<>>]

\* getAnalysisStatistics(): no try block.  On a stored value that is no array
\* history.length is not 0 and history.reduce is no function; on a null element
\* item.result throws.
getAnalysisStatisticsResult ==
    LET h == getAnalysisHistory
    IN  IF h.t # "arr" THEN [out |-> "threw", r |-> Undefined]
        ELSE IF Len(h.v) = 0 THEN [out |-> "returned", r |-> Val(EmptyStatistics)]
        ELSE IF HasNull(h.v) THEN [out |-> "threw", r |-> Undefined]
        ELSE [out |-> "returned", r |-> Val(StatisticsOf(h.v))]

getAnalysisStatistics ==
    LET res == getAnalysisStatisticsResult
    IN  /\ Called("getAnalysisStatistics", res.out, res.r)
        /\ UNCHANGED <<history, brandVoice, preferences, recentKeywords, recentAudiences,
                       clock, saveLog, writeFailures, prefLog, lastArg, kwOrder, audOrder>>

----------------------------------------------------------------------------
(* compareAnalyses *)

RECURSIVE MapKeys(_)
\* new Map(sections.map(s => [s.id, s])): the keys, in the order of first insertion
MapKeys(sections) ==
    IF sections = <<>> THEN <<>>
    ELSE LET front == MapKeys(SubSeq(sections, 1, Len(sections) - 1))
             last == sections[Len(sections)].id
         IN  IF Includes(front, last) THEN front ELSE Append(front, last)

\* Map.prototype.has(id)
MapHas(sections, id) == \E i \in 1..Len(sections) : sections[i].id = id

\* Map.prototype.get(id): the section set last under the key
MapGet(sections, id) ==
    LET at == {i \in 1..Len(sections) : sections[i].id = id}
    IN  sections[CHOOSE i \in at : \A j \in at : j <= i]

\* section2.seoScore < section1.seoScore where the code has >
IsImproved_Swapped(section1, section2) == section2.seoScore < section1.seoScore

\* if (section2.seoScore > section1.seoScore) sectionsImproved.push
IsImproved(section1, section2) == section2.seoScore > section1.seoScore

\* else if (section2.seoScore < section1.seoScore) sectionsDeclined.push
IsDeclined(section1, section2) ==
    ~ IsImproved(section1, section2) /\ section2.seoScore < section1.seoScore

\* compareAnalyses(analysis1, analysis2)
compareAnalyses(a1, a2) ==
    LET seoScoreDelta == a2.overallSeoScore - a1.overallSeoScore
        sections1 == a1.sections
        sections2 == a2.sections
        added == SelectSeq(MapKeys(sections2), LAMBDA id : ~ MapHas(sections1, id))
        removed == SelectSeq(MapKeys(sections1), LAMBDA id : ~ MapHas(sections2, id))
        improved == SelectSeq(MapKeys(sections1), LAMBDA id :
                        /\ MapHas(sections2, id)
                        /\ IsImproved(MapGet(sections1, id), MapGet(sections2, id)))
        declined == SelectSeq(MapKeys(sections1), LAMBDA id :
                        /\ MapHas(sections2, id)
                        /\ IsDeclined(MapGet(sections1, id), MapGet(sections2, id)))
        label1(id) == MapGet(sections1, id).label
        label2(id) == MapGet(sections2, id).label
    IN  [seoScoreDelta |-> seoScoreDelta,
         sectionsAdded |-> MapSeq(added, label2),
         sectionsRemoved |-> MapSeq(removed, label1),
         sectionsImproved |-> MapSeq(improved, label2),
         sectionsDeclined |-> MapSeq(declined, label2),
         overallImprovement |-> seoScoreDelta > 0]

NotCompared == [called |-> FALSE]

CompareAnalyses ==
    /\ comparison = NotCompared
    /\ comparison' = [called |-> TRUE, value |-> compareAnalyses(analysis1, analysis2)]
    /\ UNCHANGED <<analysis1, analysis2>>

\* No comparison is going on
CmpIdle ==
    /\ analysis1 = [overallSeoScore |-> 0, sections |-> <<>>]
    /\ analysis2 = [overallSeoScore |-> 0, sections |-> <<>>]
    /\ comparison = NotCompared

----------------------------------------------------------------------------
(* The analysis service: actionAnalyzeScreenshotEnhanced as the orchestrators *)
(* see it.  One analysis reads the file (FileReader), then issues one model   *)
(* call (ai.models.generateContent) and parses the response; a failure of any *)
(* of the three rejects the promise.                                          *)

\* How one analysis ends: resolved, or rejected by the FileReader, or rejected
\* by the model call or the JSON.parse of its response
ReadOutcomes == {"ok", "readError"}
CallOutcomes == {"ok", "callError"}

FileName(i) == [name |-> "file", index |-> i]
Completed == [name |-> "Completed", index |-> -1]

\* The AnalysisResult of the image with index i
ResultOf(i) == [imageFileName |-> FileName(i)]

\* The websiteUrl the caller of an orchestrator gives
CallerUrl == "https://mysite.com"

\* The arguments of one actionAnalyzeScreenshotEnhanced call
AnalyzeArgs(i, url, variants) ==
    [imageFile |-> FileName(i), websiteUrl |-> url, generateVariants |-> variants]

----------------------------------------------------------------------------
(* actionBatchAnalyze.  pc: "idle", "reading" (FileReader of image i running), *)
(* "calling" (model call of image i in flight), "resolved", "rejected".        *)

BatchIdle ==
    [pc |-> "idle", n |-> 0, hasProgress |-> FALSE, i |-> 0, results |-> <<>>,
     progress |-> <<>>, calls |-> <<>>, inFlight |-> 0, outcomes |-> <<>>,
     returned |-> <<>>]

\* (i / imageFiles.length) * 100 computed with i + 1
Percent_After(i, n) == <<(i + 1) * 100, n>>

\* (i / imageFiles.length) * 100, as the fraction <<numerator, denominator>>
Percent(i, n) == <<i * 100, n>>

\* if (onProgress) onProgress(pct, name)
Report(b, pct, name) ==
    IF b.hasProgress
      THEN [b EXCEPT !.progress = Append(@, [pct |-> pct, currentFile |-> name])]
      ELSE b

\* The head of the for loop with the locals of b: the next image is reported and
\* its analysis started, or the loop is over, 100 is reported and results returned
BatchLoop(b) ==
    IF b.i < b.n
      THEN [Report(b, Percent(b.i, b.n), FileName(b.i)) EXCEPT !.pc = "reading"]
      ELSE [Report(b, <<100, 1>>, Completed) EXCEPT !.pc = "resolved",
                                                    !.returned = b.results]

\* The catch block with the error thrown on to the caller
BatchCatch_Rethrow(b) == [b EXCEPT !.pc = "rejected"]

\* catch (error) { console.error(...) }: on to the next file
BatchCatch(b) == BatchLoop([b EXCEPT !.i = @ + 1])

\* results.push(result), then the next iteration
BatchPush(b) == BatchLoop([b EXCEPT !.results = Append(@, ResultOf(b.i)), !.i = @ + 1])

\* The model call is issued and the loop goes on without awaiting it
BatchIssue_NoAwait(b) ==
    BatchLoop([b EXCEPT !.inFlight = @ + 1, !.i = @ + 1,
                        !.calls = Append(@, AnalyzeArgs(b.i, CallerUrl, TRUE))])

\* await ai.models.generateContent(...) inside the awaited analysis of image i
BatchIssue(b) ==
    [b EXCEPT !.pc = "calling", !.inFlight = @ + 1,
              !.calls = Append(@, AnalyzeArgs(b.i, CallerUrl, TRUE))]

\* actionBatchAnalyze({imageFiles, ..., onProgress}) is called: the function
\* runs to its first await
BatchStart(n, hasProgress) ==
    /\ batch.pc = "idle"
    /\ batch' = BatchLoop([BatchIdle EXCEPT !.n = n, !.hasProgress = hasProgress])
    /\ UNCHANGED competitor

\* The FileReader of image i ends
BatchReadDone(out) ==
    /\ batch.pc = "reading"
    /\ batch' = IF out = "ok" THEN BatchIssue(batch)
                ELSE BatchCatch([batch EXCEPT !.outcomes = Append(@, out)])
    /\ UNCHANGED competitor

\* The model call of image i ends
BatchCallDone(out) ==
    /\ batch.pc = "calling"
    /\ LET b == [batch EXCEPT !.inFlight = @ - 1, !.outcomes = Append(@, out)]
       IN  batch' = IF out = "ok" THEN BatchPush(b) ELSE BatchCatch(b)
    /\ UNCHANGED competitor

----------------------------------------------------------------------------
(* actionCompetitorComparison.  Image 0 is yourScreenshot, images 1..m the     *)
(* competitorScreenshots.  pc: "idle", "reading", "calling" (analysis of image *)
(* i), "synthesis" (the model call of generateCompetitiveInsights in flight),  *)
(* "resolved", "rejected".                                                     *)

CompetitorIdle ==
    [pc |-> "idle", m |-> 0, i |-> 0, analyses |-> <<>>, calls |-> <<>>, inFlight |-> 0,
     insights |-> <<>>, synthesis |-> "none"]

\* What the text-only model call of generateCompetitiveInsights answers: it
\* fails, or its text is no JSON, a JSON array of insights, an object with an
\* insights array, or an object without one
SynthesisOutcomes == {"callError", "unparseable", "array", "objectWithInsights", "objectOther"}

SomeInsights == <<[competitor |-> "Competitor 1"], [competitor |-> "Competitor 2"]>>

\* try { insights = JSON.parse(response.text.trim()); return insights.insights || [] }
\* catch { return [] }
InsightsOf(out) == IF out = "objectWithInsights" THEN SomeInsights ELSE <<>>

\* Every image analysed with the caller's arguments
CompetitorArgs_AllAlike(i) == AnalyzeArgs(i, CallerUrl, TRUE)

\* The arguments of the analysis of image i
CompetitorArgs(i) ==
    IF i = 0 THEN AnalyzeArgs(0, CallerUrl, TRUE) ELSE AnalyzeArgs(i, "Competitor", FALSE)

\* await ai.models.generateContent(...) inside the awaited analysis of image i
CompetitorIssue(c) ==
    [c EXCEPT !.pc = "calling", !.inFlight = @ + 1,
              !.calls = Append(@, [kind |-> "analyze", args |-> CompetitorArgs(c.i)])]

\* The analysis of image i resolved: the next image is analysed, or, after the
\* last one, generateCompetitiveInsights issues its model call
CompetitorNext(c) ==
    LET d == [c EXCEPT !.analyses = Append(@, ResultOf(c.i)), !.i = @ + 1]
    IN  IF d.i <= d.m
          THEN [d EXCEPT !.pc = "reading"]
          ELSE [d EXCEPT !.pc = "synthesis", !.inFlight = @ + 1,
                         !.calls = Append(@, [kind |-> "synthesis",
                                              args |-> AnalyzeArgs(-1, "", FALSE)])]

\* A failed analysis caught and its image skipped, as actionBatchAnalyze does
CompetitorFail_Skip(c) ==
    LET d == [c EXCEPT !.i = @ + 1]
    IN  IF d.i <= d.m
          THEN [d EXCEPT !.pc = "reading"]
          ELSE [d EXCEPT !.pc = "synthesis", !.inFlight = @ + 1,
                         !.calls = Append(@, [kind |-> "synthesis",
                                              args |-> AnalyzeArgs(-1, "", FALSE)])]

\* The awaited analysis of image i rejected: there is no try block, the
\* comparison rejects with the same error
CompetitorFail(c) == [c EXCEPT !.pc = "rejected"]

\* actionCompetitorComparison({yourScreenshot, competitorScreenshots, ...}) is
\* called: the analysis of yourScreenshot starts reading its file
CompetitorStart(m) ==
    /\ competitor.pc = "idle"
    /\ competitor' = [CompetitorIdle EXCEPT !.pc = "reading", !.m = m]
    /\ UNCHANGED batch

\* The FileReader of image i ends; its failure rejects the analysis and, there
\* being no try block, the comparison
CompetitorReadDone(out) ==
    /\ competitor.pc = "reading"
    /\ competitor' = IF out = "ok" THEN CompetitorIssue(competitor)
                     ELSE CompetitorFail(competitor)
    /\ UNCHANGED batch

\* The model call of image i ends
CompetitorCallDone(out) ==
    /\ competitor.pc = "calling"
    /\ LET c == [competitor EXCEPT !.inFlight = @ - 1]
       IN  competitor' = IF out = "ok" THEN CompetitorNext(c)
                         ELSE CompetitorFail(c)
    /\ UNCHANGED batch

\* The synthesis has no try block: its failure rejects the comparison
CompetitorSynthesisDone_Rethrow(out) ==
    /\ competitor.pc = "synthesis"
    /\ competitor' = [competitor EXCEPT
                         !.pc = IF out \in {"callError", "unparseable"} THEN "rejected"
                                ELSE "resolved",
                         !.inFlight = @ - 1, !.synthesis = out, !.insights = InsightsOf(out)]
    /\ UNCHANGED batch

\* The model call of generateCompetitiveInsights ends and the comparison resolves
CompetitorSynthesisDone(out) ==
    /\ competitor.pc = "synthesis"
    /\ competitor' = [competitor EXCEPT !.pc = "resolved", !.inFlight = @ - 1,
                                        !.synthesis = out, !.insights = InsightsOf(out)]
    /\ UNCHANGED batch

\* No orchestrator is running
OrchIdle ==
    /\ batch = BatchIdle
    /\ competitor = CompetitorIdle

----------------------------------------------------------------------------
(* utils/keyboardShortcuts.ts: the keydown handler of useKeyboardShortcuts *)

\* A KeyboardShortcut; a modifier left out of the literal is FALSE here, the
\* handler only testing the fields for truthiness
Shortcut(key, ctrl, alt, shift, meta, action) ==
    [key |-> key, ctrl |-> ctrl, alt |-> alt, shift |-> shift, meta |-> meta,
     action |-> action]

\* The table with its search entry bound to plain k
getDefaultShortcuts_PlainK ==
    << Shortcut("Enter", TRUE, FALSE, FALSE, FALSE, "analyze"),
       Shortcut("n", TRUE, FALSE, FALSE, FALSE, "newAnalysis"),
       Shortcut("k", FALSE, FALSE, FALSE, FALSE, "search"),
       Shortcut("/", FALSE, FALSE, FALSE, FALSE, "toggleHelp"),
       Shortcut("j", FALSE, FALSE, FALSE, FALSE, "nextSection"),
       Shortcut("k", FALSE, FALSE, FALSE, FALSE, "prevSection"),
       Shortcut("h", TRUE, FALSE, FALSE, FALSE, "toggleHistory"),
       Shortcut(",", TRUE, FALSE, FALSE, FALSE, "toggleSettings"),
       Shortcut("c", TRUE, FALSE, TRUE, FALSE, "copy"),
       Shortcut("e", TRUE, FALSE, FALSE, FALSE, "export"),
       Shortcut("s", TRUE, FALSE, FALSE, FALSE, "export") >>

\* getDefaultShortcuts(actions), each action named after its field of actions
getDefaultShortcuts ==
    << Shortcut("Enter", TRUE, FALSE, FALSE, FALSE, "analyze"),
       Shortcut("n", TRUE, FALSE, FALSE, FALSE, "newAnalysis"),
       Shortcut("k", TRUE, FALSE, FALSE, FALSE, "search"),
       Shortcut("/", FALSE, FALSE, FALSE, FALSE, "toggleHelp"),
       Shortcut("j", FALSE, FALSE, FALSE, FALSE, "nextSection"),
       Shortcut("k", FALSE, FALSE, FALSE, FALSE, "prevSection"),
       Shortcut("h", TRUE, FALSE, FALSE, FALSE, "toggleHistory"),
       Shortcut(",", TRUE, FALSE, FALSE, FALSE, "toggleSettings"),
       Shortcut("c", TRUE, FALSE, TRUE, FALSE, "copy"),
       Shortcut("e", TRUE, FALSE, FALSE, FALSE, "export"),
       Shortcut("s", TRUE, FALSE, FALSE, FALSE, "export") >>

\* String.prototype.toLowerCase on the keys of the model
toLowerCase(key) ==
    CASE key = "K" -> "k"
      [] key = "X" -> "x"
      [] key = "C" -> "c"
      [] key = "Enter" -> "enter"
      [] OTHER -> key

\* target.tagName === 'INPUT' || target.tagName === 'TEXTAREA'
IsTextEntry_TagOnly(target) ==
    target.tagName = "INPUT" \/ target.tagName = "TEXTAREA"

\* target.tagName === 'INPUT' || target.tagName === 'TEXTAREA' || target.isContentEditable
IsTextEntry(target) ==
    target.tagName = "INPUT" \/ target.tagName = "TEXTAREA" \/ target.isContentEditable

\* keyMatch && ctrlMatch && altMatch && shiftMatch
Matches(shortcut, event) ==
    LET keyMatch == toLowerCase(event.key) = toLowerCase(shortcut.key)
        ctrlMatch == IF shortcut.ctrl THEN event.ctrlKey \/ event.metaKey
                     ELSE ~event.ctrlKey /\ ~event.metaKey
        altMatch == IF shortcut.alt THEN event.altKey ELSE ~event.altKey
        shiftMatch == IF shortcut.shift THEN event.shiftKey ELSE ~event.shiftKey
    IN  keyMatch /\ ctrlMatch /\ altMatch /\ shiftMatch

\* for (const shortcut of shortcuts) { if (...) { ...; break } } from entry i on:
\* the actions invoked
RECURSIVE Scan(_, _, _)
Scan(shortcuts, i, event) ==
    IF i > Len(shortcuts) THEN <<>>
    ELSE IF Matches(shortcuts[i], event) THEN <<shortcuts[i].action>>
    ELSE Scan(shortcuts, i + 1, event)

\* handleKeyDown(event): the actions invoked
handleKeyDown(shortcuts, enabled, event) ==
    IF ~enabled THEN <<>>
    ELSE IF IsTextEntry(event.target) THEN <<>>
    ELSE Scan(shortcuts, 1, event)

NoEvent == [key |-> "", ctrlKey |-> FALSE, altKey |-> FALSE, shiftKey |-> FALSE,
            metaKey |-> FALSE, target |-> [tagName |-> "BODY", isContentEditable |-> FALSE]]

\* The hook is installed with a list and the enabled flag; no key pressed yet
Installed(shortcuts, enabled) ==
    [shortcuts |-> shortcuts, enabled |-> enabled, keydowns |-> 0, event |-> NoEvent,
     invoked |-> <<>>, preventDefault |-> FALSE]

\* window receives a keydown
KeyDown(event) ==
    LET invoked == handleKeyDown(dispatcher.shortcuts, dispatcher.enabled, event)
    IN  dispatcher' = [dispatcher EXCEPT !.keydowns = 1, !.event = event,
                                         !.invoked = invoked,
                                         !.preventDefault = invoked # <<>>]

DispatcherIdle == dispatcher = Installed(<<>>, TRUE)

----------------------------------------------------------------------------
(* App.tsx: the state of the component, its handlers, and what the rendered  *)
(* page lets the user do.  A text is a sequence of characters.                *)

RECURSIVE Split(_, _)
\* String.prototype.split(sep) for a separator of one character
Split(text, sep) ==
    IF \A i \in 1..Len(text) : text[i] # sep THEN <<text>>
    ELSE LET at == CHOOSE i \in 1..Len(text) :
                      text[i] = sep /\ \A j \in 1..(i - 1) : text[j] # sep
         IN  <<SubSeq(text, 1, at - 1)>> \o Split(SubSeq(text, at + 1, Len(text)), sep)

RECURSIVE Trim(_)
\* String.prototype.trim()
Trim(text) ==
    IF text = <<>> THEN <<>>
    ELSE IF text[1] = " " THEN Trim(Tail(text))
    ELSE IF text[Len(text)] = " " THEN Trim(SubSeq(text, 1, Len(text) - 1))
    ELSE text

\* keywords.split(',').map(k => k.trim()).filter(Boolean)
keywordsArray(keywords) ==
    SelectSeq([i \in 1..Len(Split(keywords, ",")) |-> Trim(Split(keywords, ",")[i])],
              LAMBDA k : k # <<>>)

NoFile == "none"
NoAnalysis == [request |-> 0, hasSections |-> FALSE, sections |-> <<>>]
NoRequest == [imageFile |-> NoFile, websiteUrl |-> <<>>, keywords |-> <<>>,
              targetAudience |-> <<>>]

\* useState(...) of every state variable of App; started, pending, lastRequest
\* and lastOutcome record the calls of the analysis client
AppInitial ==
    [imageFile |-> NoFile, websiteUrl |-> <<>>, keywords |-> <<>>, targetAudience |-> <<>>,
     analysis |-> NoAnalysis, selectedSection |-> "", busy |-> FALSE,
     currentTab |-> "upload", error |-> "",
     started |-> 0, pending |-> {}, lastRequest |-> NoRequest, lastOutcome |-> "none"]

\* imageFile alone
canAnalyze_ImageOnly(a) == a.imageFile # NoFile

\* const canAnalyze = imageFile && keywordsArray.length > 0 && targetAudience
canAnalyze(a) ==
    /\ a.imageFile # NoFile
    /\ Len(keywordsArray(a.keywords)) > 0
    /\ a.targetAudience # <<>>

\* disabled={!canAnalyze}
AnalyzeDisabled_IgnoreBusy(a) == ~canAnalyze(a)

\* <Button onClick={handleAnalyze} disabled={!canAnalyze || busy}>, inside
\* <TabsContent value="upload">, which renders nothing on another tab
AnalyzeDisabled(a) == ~canAnalyze(a) \/ a.busy

\* <TabsTrigger value="results"> without its disabled attribute
ResultsTabDisabled_Never(a) == FALSE

\* <TabsTrigger value="results" disabled={!analysis}>
ResultsTabDisabled(a) == a.analysis = NoAnalysis

\* handleImageUpload(event): file is 0 when no file was chosen
handleImageUpload(file, isImage) ==
    app' = IF file # NoFile /\ isImage
             THEN [app EXCEPT !.imageFile = file, !.error = ""]
             ELSE [app EXCEPT !.error = "Please upload a valid image file"]

\* onChange of the three inputs
setKeywords(text) == app' = [app EXCEPT !.keywords = text]
setTargetAudience(text) == app' = [app EXCEPT !.targetAudience = text]
setWebsiteUrl(text) == app' = [app EXCEPT !.websiteUrl = text]

\* setCurrentTab(value), the onValueChange of Tabs
setCurrentTab(value) == app' = [app EXCEPT !.currentTab = value]

\* setBusy(true); setError("")
BeforeAnalyze_KeepAnalysis(a) == [a EXCEPT !.busy = TRUE, !.error = ""]

\* setBusy(true); setError(""); setAnalysis(null)
BeforeAnalyze(a) == [a EXCEPT !.busy = TRUE, !.error = "", !.analysis = NoAnalysis]

\* handleAnalyze() up to its await: the request is sent
handleAnalyze ==
    app' = IF app.imageFile = NoFile
             THEN [app EXCEPT !.error = "Please upload a screenshot first"]
             ELSE [BeforeAnalyze(app) EXCEPT
                              !.started = @ + 1, !.pending = @ \cup {app.started + 1},
                              !.lastRequest = [imageFile |-> app.imageFile,
                                               websiteUrl |-> app.websiteUrl,
                                               keywords |-> keywordsArray(app.keywords),
                                               targetAudience |-> app.targetAudience]]

\* How a request ends: a result with or without sections, a parsed response
\* that has no sections array, an Error of the client, a FileReader error event
RequestOutcomes == {"sections", "noSections", "sectionsMissing", "error", "errorEvent"}
Rejections == {"error", "errorEvent"}

\* finally { setBusy(false) } left out
AfterAnalyze_NoFinally(a) == a

\* finally { setBusy(false) }
AfterAnalyze(a) == [a EXCEPT !.busy = FALSE]

\* handleAnalyze() from its await on, for the request with this number
handleAnalyzeDone(id, out) ==
    LET done == [app EXCEPT !.pending = @ \ {id}, !.lastOutcome = out]
        result == [request |-> id, hasSections |-> out # "sectionsMissing",
                   sections |-> IF out = "sections" THEN <<"s1", "s2">> ELSE <<>>]
    IN  app' = AfterAnalyze(
          CASE out \in {"sections", "noSections"} ->
                 [done EXCEPT !.analysis = result,
                              !.selectedSection = IF result.sections = <<>> THEN ""
                                                  ELSE result.sections[1],
                              !.currentTab = "results"]
            [] out = "sectionsMissing" ->
                 \* setAnalysis(result), then result.sections[0] throws a TypeError
                 [done EXCEPT !.analysis = result,
                              !.error = "Cannot read properties of undefined"]
            [] out = "error" ->
                 [done EXCEPT !.error = "Failed to analyze screenshot"]
            [] out = "errorEvent" ->
                 [done EXCEPT !.error = "An unknown error occurred during analysis."])

\* What the user does on the page as rendered
ClickAnalyze ==
    /\ app.currentTab = "upload"
    /\ ~AnalyzeDisabled(app)
    /\ handleAnalyze

ClickTab(value) ==
    /\ value = "results" => ~ResultsTabDisabled(app)
    /\ setCurrentTab(value)

RequestDone(id, out) ==
    /\ id \in app.pending
    /\ handleAnalyzeDone(id, out)

AppIdle == app = AppInitial

\* actionAnalyzeScreenshotEnhanced has not been called
NoPrompt == [called |-> FALSE]

PageIdle == AppIdle /\ prompter = NoPrompt

----------------------------------------------------------------------------
(* utils/exportUtils.ts.  A text is a sequence of characters; a run of       *)
(* characters none of which is a quote, a comma, a line break or a backslash *)
(* may stand in it as one element (a word, a number)                          *)

Quote == "\""
Comma == ","
Newline == "\n"
Backslash == "\\"

RECURSIVE Join(_, _)
\* Array.prototype.join(sep) on an array of texts
Join(parts, sep) ==
    IF parts = <<>> THEN <<>>
    ELSE IF Len(parts) = 1 THEN parts[1]
    ELSE parts[1] \o sep \o Join(Tail(parts), sep)

\* suggestedContent as it is, no quote doubled
ReplaceQuotes_None(text) == text

RECURSIVE ReplaceQuotes(_)
\* text.replace(/"/g, '""')
ReplaceQuotes(text) ==
    IF text = <<>> THEN <<>>
    ELSE (IF text[1] = Quote THEN <<Quote, Quote>> ELSE <<text[1]>>)
             \o ReplaceQuotes(Tail(text))

\* Number.prototype.toString of a non-negative integer
NumberToString(n) == <<ToString(n)>>

csvHeaders == << <<"Section">>, <<"Type">>, <<"SEO Score">>, <<"Keywords">>,
                 <<"Character Count">>, <<"Content">> >>

\* The array built for one section by the map callback of exportToCSV
csvRow(section) ==
    << section.label,
       <<section.type>>,
       NumberToString(section.seoScore),
       Join(section.keywords, <<";", " ">>),
       NumberToString(section.characterCount),
       <<Quote>> \o ReplaceQuotes(section.suggestedContent) \o <<Quote>> >>

csvRows(analysis) == MapSeq(analysis.sections, csvRow)

JoinWithCommas(row) == Join(row, <<Comma>>)

\* exportToCSV(analysis)
exportToCSV(analysis) ==
    Join(<<JoinWithCommas(csvHeaders)>> \o MapSeq(csvRows(analysis), JoinWithCommas),
         <<Newline>>)

----------------------------------------------------------------------------
(* JSON.stringify(value, null, 2) and JSON.parse on the values an analysis  *)
(* result is made of: strings, numbers, arrays, objects with ordered keys   *)

JStr(text) == [t |-> "str", v |-> text]
JNum(n) == [t |-> "num", v |-> n]
JArr(elements) == [t |-> "arr", v |-> elements]
\* members: a sequence of <<key, value>>, the key a text
JObj(members) == [t |-> "obj", v |-> members]

\* The line break written as the letter n, the backslash left out
JsonEscape_NewlineBare(c) ==
    CASE c = Quote -> <<Backslash, Quote>>
      [] c = Backslash -> <<Backslash, Backslash>>
      [] c = Newline -> <<"n">>
      [] OTHER -> <<c>>

\* The characters JSON.stringify writes for one character of a string
JsonEscape(c) ==
    CASE c = Quote -> <<Backslash, Quote>>
      [] c = Backslash -> <<Backslash, Backslash>>
      [] c = Newline -> <<Backslash, "n">>
      [] OTHER -> <<c>>

RECURSIVE JsonQuoteFrom(_, _)
JsonQuoteFrom(text, i) ==
    IF i > Len(text) THEN <<>> ELSE JsonEscape(text[i]) \o JsonQuoteFrom(text, i + 1)

\* A string literal
JsonQuote(text) == <<Quote>> \o JsonQuoteFrom(text, 1) \o <<Quote>>

\* The indentation of a line at a nesting level, two spaces a level
Indent(level) == [k \in 1..(2 * level) |-> " "]

RECURSIVE JSONstringify(_, _)
\* JSON.stringify(value, null, 2), the value at a nesting level
JSONstringify(value, level) ==
    LET inner == <<Newline>> \o Indent(level + 1)
        close == <<Newline>> \o Indent(level)
        element(e) == JSONstringify(e, level + 1)
        member(m) == JsonQuote(m[1]) \o <<":", " ">> \o JSONstringify(m[2], level + 1)
    IN  CASE value.t = "str" -> JsonQuote(value.v)
          [] value.t = "num" -> NumberToString(value.v)
          [] value.t = "arr" ->
                IF value.v = <<>> THEN <<"[", "]">>
                ELSE <<"[">> \o inner \o Join(MapSeq(value.v, element), <<Comma>> \o inner)
                         \o close \o <<"]">>
          [] value.t = "obj" ->
                IF value.v = <<>> THEN <<"{", "}">>
                ELSE <<"{">> \o inner \o Join(MapSeq(value.v, member), <<Comma>> \o inner)
                         \o close \o <<"}">>

\* The numbers of the model, and a number read from its digits
JsonNumbers == 0..100
IsNumber(c) == \E n \in JsonNumbers : ToString(n) = c
ParseNumber(c) == CHOOSE n \in JsonNumbers : ToString(n) = c

\* What a parsing step gives: a value and the position after it, or a SyntaxError
Parsed(value, next) == [ok |-> TRUE, value |-> value, next |-> next]
SyntaxError == [ok |-> FALSE, value |-> JNum(0), next |-> 0]

\* The character at a position, none after the end
At(text, i) == IF i >= 1 /\ i <= Len(text) THEN text[i] ELSE "EOF"

RECURSIVE SkipWhitespace(_, _)
SkipWhitespace(text, i) ==
    IF At(text, i) \in {" ", Newline} THEN SkipWhitespace(text, i + 1) ELSE i

RECURSIVE ParseString(_, _, _)
\* The string whose opening quote stands before position i
ParseString(text, i, acc) ==
    LET c == At(text, i)
        d == At(text, i + 1)
    IN  IF c = "EOF" \/ c = Newline THEN SyntaxError
        ELSE IF c = Quote THEN Parsed(acc, i + 1)
        ELSE IF c = Backslash
          THEN IF d = Quote THEN ParseString(text, i + 2, Append(acc, Quote))
               ELSE IF d = Backslash THEN ParseString(text, i + 2, Append(acc, Backslash))
               ELSE IF d = "n" THEN ParseString(text, i + 2, Append(acc, Newline))
               ELSE SyntaxError
        ELSE ParseString(text, i + 1, Append(acc, c))

RECURSIVE ParseValue(_, _)
RECURSIVE ParseElements(_, _, _)
RECURSIVE ParseMembers(_, _, _)

\* The value that starts at or after position i
ParseValue(text, i) ==
    LET j == SkipWhitespace(text, i)
        c == At(text, j)
    IN  IF c = Quote
          THEN LET r == ParseString(text, j + 1, <<>>)
               IN  IF r.ok THEN Parsed(JStr(r.value), r.next) ELSE SyntaxError
        ELSE IF c = "["
          THEN LET k == SkipWhitespace(text, j + 1)
               IN  IF At(text, k) = "]" THEN Parsed(JArr(<<>>), k + 1)
                   ELSE ParseElements(text, k, <<>>)
        ELSE IF c = "{"
          THEN LET k == SkipWhitespace(text, j + 1)
               IN  IF At(text, k) = "}" THEN Parsed(JObj(<<>>), k + 1)
                   ELSE ParseMembers(text, k, <<>>)
        ELSE IF IsNumber(c) THEN Parsed(JNum(ParseNumber(c)), j + 1)
        ELSE SyntaxError

\* The elements of an array from position i on, up to its closing bracket
ParseElements(text, i, acc) ==
    LET r == ParseValue(text, i)
        j == SkipWhitespace(text, r.next)
    IN  IF ~r.ok THEN SyntaxError
        ELSE IF At(text, j) = Comma THEN ParseElements(text, j + 1, Append(acc, r.value))
        ELSE IF At(text, j) = "]" THEN Parsed(JArr(Append(acc, r.value)), j + 1)
        ELSE SyntaxError

\* The members of an object from position i on, up to its closing brace
ParseMembers(text, i, acc) ==
    LET j == SkipWhitespace(text, i)
        key == IF At(text, j) = Quote THEN ParseString(text, j + 1, <<>>) ELSE SyntaxError
        k == SkipWhitespace(text, key.next)
        r == IF key.ok /\ At(text, k) = ":" THEN ParseValue(text, k + 1) ELSE SyntaxError
        m == SkipWhitespace(text, r.next)
    IN  IF ~r.ok THEN SyntaxError
        ELSE IF At(text, m) = Comma
          THEN ParseMembers(text, m + 1, Append(acc, <<key.value, r.value>>))
        ELSE IF At(text, m) = "}"
          THEN Parsed(JObj(Append(acc, <<key.value, r.value>>)), m + 1)
        ELSE SyntaxError

\* JSON.parse(text): the value, or a SyntaxError when the text is no JSON
JSONparse(text) ==
    LET r == ParseValue(text, 1)
    IN  IF r.ok /\ SkipWhitespace(text, r.next) = Len(text) + 1 THEN r ELSE SyntaxError

\* A section and an analysis result as JavaScript values, keys in their order
JsSection(section) ==
    JObj(<< << <<"id">>, JStr(<<section.id>>) >>,
            << <<"type">>, JStr(<<section.type>>) >>,
            << <<"label">>, JStr(section.label) >>,
            << <<"suggestedContent">>, JStr(section.suggestedContent) >>,
            << <<"seoScore">>, JNum(section.seoScore) >>,
            << <<"keywords">>, JArr(MapSeq(section.keywords, JStr)) >>,
            << <<"characterCount">>, JNum(section.characterCount) >> >>)

JsAnalysis(analysis) ==
    JObj(<< << <<"sections">>, JArr(MapSeq(analysis.sections, JsSection)) >>,
            << <<"overallSeoScore">>, JNum(analysis.overallSeoScore) >>,
            << <<"recommendations">>, JArr(MapSeq(analysis.recommendations, JStr)) >>,
            << <<"pageType">>, JStr(analysis.pageType) >>,
            << <<"imageUrl">>, JStr(analysis.imageUrl) >> >>
         \o (IF "brandVoiceAnalysis" \in DOMAIN analysis
               THEN << << <<"brandVoiceAnalysis">>,
                          JObj(<< << <<"detectedTone">>,
                                     JStr(analysis.brandVoiceAnalysis.detectedTone) >>,
                                  << <<"consistency">>,
                                     JNum(analysis.brandVoiceAnalysis.consistency) >>,
                                  << <<"suggestions">>,
                                     JArr(MapSeq(analysis.brandVoiceAnalysis.suggestions,
                                                 JStr)) >> >>) >> >>
               ELSE <<>>))

\* exportToJSON(analysis)
exportToJSON(analysis) == JSONstringify(JsAnalysis(analysis), 0)

ExportToJSON ==
    /\ exporter.called = "none"
    /\ exporter' = [called |-> "exportToJSON", analysis |-> exporter.analysis,
                    rows |-> <<>>, text |-> exportToJSON(exporter.analysis)]

\* A formatter is called on the analysis given
ExportToCSV ==
    /\ exporter.called = "none"
    /\ exporter' = [called |-> "exportToCSV", analysis |-> exporter.analysis,
                    rows |-> csvRows(exporter.analysis),
                    text |-> exportToCSV(exporter.analysis)]


ExporterIdle == exporter = [called |-> "none"]

\* exportHistoryAsJSON has not been called
NotExported == [done |-> FALSE]

UiIdle == DispatcherIdle /\ ExporterIdle /\ exported = NotExported /\ PageIdle

----------------------------------------------------------------------------
(* The store after construction: nothing is stored under any key *)

StoreInit ==
    /\ history = Absent
    /\ brandVoice = Absent
    /\ preferences = Absent
    /\ recentKeywords = Absent
    /\ recentAudiences = Absent
    /\ clock = 1
    /\ lastCall = "none"
    /\ outcome = "returned"
    /\ ret = Undefined
    /\ calls = 0
    /\ saveLog = <<>>
    /\ writeFailures = 0
    /\ prefLog = <<>>
    /\ lastArg = <<>>
    /\ kwOrder = <<>>
    /\ audOrder = <<>>

\* An analysis result and the configuration it was produced with
SomeResult == [overallSeoScore |-> 70, pageType |-> "Landing Page"]
SomeConfig == [websiteUrl |-> "https://mysite.com", keywords |-> <<"seo", "content">>,
               targetAudience |-> "marketers"]

----------------------------------------------------------------------------
(* SpecSave: saveAnalysisToHistory called again and again on an empty store *)

vars == <<storeVars, cmpVars, orchVars, uiVars>>

\* A step of the persistence layer leaves everything else alone
OnlyStore == UNCHANGED <<cmpVars, orchVars, uiVars>>
OthersIdle == CmpIdle /\ OrchIdle /\ UiIdle

SaveStep ==
    /\ OnlyStore
    /\ Len(saveLog) < MaxSaves
    /\ \E fail \in BOOLEAN :
        /\ fail => writeFailures < MaxWriteFailures
        /\ saveAnalysisToHistory(SomeResult, SomeConfig, 0, 1, fail)

InitSave == StoreInit /\ OthersIdle
NextSave == SaveStep
SpecSave == InitSave /\ [][NextSave]_vars

----------------------------------------------------------------------------
(* SpecStore: the history operations, import / export and the readers, called  *)
(* in any order on a store that starts empty                                   *)

\* Entries of an imported list: ids no save of this session produces
Imported(n) == [i \in 1..n |-> NewEntry(SomeResult, SomeConfig, i, 1, i)]

SomeProfile == [tone |-> "friendly", formalityLevel |-> 5]

\* The JSON texts given to importHistoryFromJSON
ImportPayloads ==
    { Unparseable, NullPayload,
      Payload(Absent, Absent, Absent),
      Payload(Arr(<<>>), Absent, Absent),
      Payload(Arr(Imported(MAX_HISTORY)), Absent, Absent),
      Payload(Arr(Imported(MAX_HISTORY + 1)), Obj(SomeProfile), Obj([theme |-> "light"])),
      Payload(Other, Absent, Absent),
      Payload(Arr(<<NullItem>>), Absent, Absent),
      Payload(Arr(Imported(1) \o <<NullItem>>), Absent, Obj([variantCount |-> "5"])) }

\* The ids given to getAnalysisById and deleteAnalysisFromHistory: the newest and
\* the oldest stored entry, and an id that is not stored
MissingId == <<0, 0>>
IdsToTry ==
    LET h == getAnalysisHistory
    IN  {MissingId} \cup
        (IF h.t = "arr" /\ Len(h.v) > 0 /\ ~ HasNull(h.v)
           THEN {h.v[1].id, h.v[Len(h.v)].id} ELSE {})
        \cup (IF h.t = "arr" /\ HasNull(h.v) THEN {<<1, 1>>} ELSE {})

MoreCalls == calls < MaxStoreCalls

StoreSave ==
    /\ OnlyStore
    /\ MoreCalls
    /\ \E fail \in BOOLEAN : saveAnalysisToHistory(SomeResult, SomeConfig, 0, 1, fail)
StoreDelete ==
    /\ OnlyStore
    /\ MoreCalls
    /\ \E id \in IdsToTry, fail \in BOOLEAN : deleteAnalysisFromHistory(id, fail)
StoreClear == OnlyStore /\ MoreCalls /\ clearAnalysisHistory
StoreImport ==
    /\ OnlyStore
    /\ MoreCalls
    /\ \E data \in ImportPayloads : \E failAt \in 0..WritesOf(data) :
          importHistoryFromJSON(data, failAt)
StoreGetHistory == OnlyStore /\ MoreCalls /\ getAnalysisHistoryCall
StoreGetById == OnlyStore /\ MoreCalls /\ \E id \in IdsToTry : getAnalysisById(id)
StoreGetPreferences == OnlyStore /\ MoreCalls /\ getPreferencesCall
StoreGetRecentKeywords == OnlyStore /\ MoreCalls /\ getRecentKeywordsCall
StoreExport == OnlyStore /\ MoreCalls /\ exportHistoryAsJSON
StoreStatistics == OnlyStore /\ MoreCalls /\ getAnalysisStatistics

InitStore == StoreInit /\ OthersIdle
NextStore ==
    \/ StoreSave
    \/ StoreDelete
    \/ StoreClear
    \/ StoreImport
    \/ StoreGetHistory
    \/ StoreGetById
    \/ StoreGetPreferences
    \/ StoreGetRecentKeywords
    \/ StoreExport
    \/ StoreStatistics
SpecStore == InitStore /\ [][NextStore]_vars

----------------------------------------------------------------------------
(* SpecRoundTrip: the store is filled, exportHistoryAsJSON is called, the store *)
(* is changed, and the exported text is given to importHistoryFromJSON; no     *)
(* storage write fails                                                         *)

OtherProfile == [tone |-> "formal", formalityLevel |-> 9]

MoreRoundTripCalls == calls < MaxRoundTripCalls /\ (exported.done => ~exported.imported)

OnlyStoreAndExported == UNCHANGED <<cmpVars, orchVars, dispatcher, exporter, pageVars>>

RtSave ==
    /\ OnlyStore
    /\ MoreRoundTripCalls
    /\ saveAnalysisToHistory(SomeResult, SomeConfig, 0, 1, FALSE)
RtClearHistory == OnlyStore /\ MoreRoundTripCalls /\ clearAnalysisHistory
RtSaveBrandVoice ==
    /\ OnlyStore
    /\ MoreRoundTripCalls
    /\ \E profile \in {SomeProfile, OtherProfile} : saveBrandVoice(profile, FALSE)
RtClearBrandVoice == OnlyStore /\ MoreRoundTripCalls /\ clearBrandVoice
RtSavePreferences ==
    /\ OnlyStore
    /\ MoreRoundTripCalls
    /\ \E partial \in {[theme |-> "light"], [variantCount |-> "5"]} :
          savePreferences(partial, FALSE)

\* s = exportHistoryAsJSON(), in the state S1
RtExport ==
    /\ OnlyStoreAndExported
    /\ MoreRoundTripCalls
    /\ ~exported.done
    /\ exportHistoryAsJSON
    /\ exported' = [done |-> TRUE, imported |-> FALSE, text |-> exportHistoryAsJSON_text,
                    history |-> getAnalysisHistory, brandVoice |-> getBrandVoice,
                    preferences |-> getPreferences]

\* importHistoryFromJSON(s), in the state S2
RtImport ==
    /\ OnlyStoreAndExported
    /\ MoreRoundTripCalls
    /\ exported.done
    /\ importHistoryFromJSON(exported.text, 0)
    /\ exported' = [exported EXCEPT !.imported = TRUE]

InitRoundTrip == StoreInit /\ OthersIdle
NextRoundTrip ==
    \/ RtSave
    \/ RtClearHistory
    \/ RtSaveBrandVoice
    \/ RtClearBrandVoice
    \/ RtSavePreferences
    \/ RtExport
    \/ RtImport
SpecRoundTrip == InitRoundTrip /\ [][NextRoundTrip]_vars

----------------------------------------------------------------------------
(* SpecStats: analyses saved with various keyword lists, page types and      *)
(* scores, getAnalysisStatistics called in between                            *)

OtherResult == [overallSeoScore |-> 45, pageType |-> "Blog"]

StatConfig(keywords) ==
    [websiteUrl |-> "https://mysite.com", keywords |-> keywords, targetAudience |-> "marketers"]

\* Keyword lists: twelve distinct keywords over two of them, one keyword twice
\* in one list, and none
StatConfigs ==
    { StatConfig(<<"k1", "k2", "k3", "k4", "k5", "k6">>),
      StatConfig(<<"k6", "k7", "k8", "k9", "k10", "k11", "k12">>),
      StatConfig(<<"k12", "k12">>),
      StatConfig(<<>>) }

StatsSave ==
    /\ OnlyStore
    /\ Len(saveLog) < MaxStatSaves
    /\ \E result \in {SomeResult, OtherResult}, config \in StatConfigs :
          saveAnalysisToHistory(result, config, 0, 1, FALSE)

StatsGet ==
    /\ OnlyStore
    /\ lastCall # "getAnalysisStatistics"
    /\ getAnalysisStatistics

InitStats == StoreInit /\ OthersIdle
NextStats == StatsSave \/ StatsGet
SpecStats == InitStats /\ [][NextStats]_vars

----------------------------------------------------------------------------
(* SpecPrefs: savePreferences called with partial records on an empty store *)

\* The partial records given to savePreferences: none, one or two fields
Partials ==
    UNION { [S -> UNION {PrefValues(f) : f \in S}] :
              S \in {{f} : f \in PrefFields}
                      \cup {{f, "theme"} : f \in {"variantCount", "enableVariants"}} \cup {{}} }

PartialInputs == {p \in Partials : \A f \in DOMAIN p : p[f] \in PrefValues(f)}

PrefsSave ==
    /\ OnlyStore
    /\ calls < MaxPrefSaves
    /\ \E partial \in PartialInputs, fail \in BOOLEAN :
        /\ fail => writeFailures < MaxWriteFailures
        /\ savePreferences(partial, fail)

InitPrefs == StoreInit /\ OthersIdle
NextPrefs == PrefsSave
SpecPrefs == InitPrefs /\ [][NextPrefs]_vars

----------------------------------------------------------------------------
(* SpecRecent: addRecentKeyword and addRecentAudience on an empty store.     *)
(* Keywords and audiences are numbered in the order of their first use.     *)

\* The calls made so far with a value used before, and the writes that failed
Repeats == (calls - Len(kwOrder) - Len(audOrder)) + writeFailures

\* The values given to an addRecent* call: one never used, and, used before, the
\* value at the front and the one at the end of the stored list and the oldest
\* one that is no longer stored
RecentInputs(list, order, max) ==
    (IF Len(order) < max THEN {Len(order) + 1} ELSE {})
    \cup (IF Repeats < MaxRepeats /\ Len(list) > 0 THEN {list[1], list[Len(list)]} ELSE {})
    \cup (IF Repeats < MaxRepeats
            THEN {order[i] : i \in {j \in 1..Len(order) :
                                      /\ ~ Includes(list, order[j])
                                      /\ \A m \in 1..(j - 1) : Includes(list, order[m])}}
            ELSE {})

RecentAddKeyword ==
    /\ OnlyStore
    /\ Len(audOrder) <= MaxOtherList
    /\ \E keyword \in RecentInputs(getRecentKeywords.v, kwOrder, MaxKeywords),
          fail \in BOOLEAN :
        /\ fail => Repeats < MaxRepeats
        /\ addRecentKeyword(keyword, fail)

RecentAddAudience ==
    /\ OnlyStore
    /\ Len(kwOrder) <= MaxOtherList
    /\ \E audience \in RecentInputs(getRecentAudiences.v, audOrder, MaxAudiences),
          fail \in BOOLEAN :
        /\ fail => Repeats < MaxRepeats
        /\ addRecentAudience(audience, fail)

InitRecent == StoreInit /\ OthersIdle
NextRecent == RecentAddKeyword \/ RecentAddAudience
SpecRecent == InitRecent /\ [][NextRecent]_vars

----------------------------------------------------------------------------
(* SpecCompare: compareAnalyses applied to two results whose section ids are *)
(* unique within each result                                                *)

SectionIds == 1..3
SeoScores == {50, 70}
OverallScores == {<<60, 60>>, <<60, 80>>, <<80, 60>>}

\* The label a section has in the first result, and a label it is renamed to
LabelOf(id) == <<"Hero", "Features", "Footer">>[id]
Renamed(id) == <<"Hero v2", "Features v2", "Footer v2">>[id]

Sections1 == [id : SectionIds, label : {"-"}, seoScore : SeoScores]
Sections2 == [id : SectionIds, label : {"-", "+"}, seoScore : SeoScores]

Labelled(sec) ==
    [id |-> sec.id, seoScore |-> sec.seoScore,
     label |-> IF sec.label = "-" THEN LabelOf(sec.id) ELSE Renamed(sec.id)]

\* The lists of at most MaxSections sections of S with pairwise different ids
SectionLists(S) ==
    LET lists == UNION {[1..n -> S] : n \in 0..MaxSections}
    IN  {MapSeq(l, Labelled) : l \in {m \in lists : \A i, j \in 1..Len(m) :
                                                      m[i].id = m[j].id => i = j}}

InitCompare ==
    /\ StoreInit
    /\ OrchIdle
    /\ UiIdle
    /\ comparison = NotCompared
    /\ \E o \in OverallScores, s1 \in SectionLists(Sections1), s2 \in SectionLists(Sections2) :
        /\ analysis1 = [overallSeoScore |-> o[1], sections |-> s1]
        /\ analysis2 = [overallSeoScore |-> o[2], sections |-> s2]
NextCompare == CompareAnalyses /\ UNCHANGED <<storeVars, orchVars, uiVars>>
SpecCompare == InitCompare /\ [][NextCompare]_vars

----------------------------------------------------------------------------
(* SpecOrch: one run of actionBatchAnalyze and one of actionCompetitorComparison, *)
(* their awaited operations completing in any order                              *)

OnlyOrch == UNCHANGED <<storeVars, cmpVars, uiVars>>

OrchBatchStart ==
    /\ OnlyOrch
    /\ \E n \in 0..MaxImages, hasProgress \in BOOLEAN : BatchStart(n, hasProgress)
OrchBatchReadDone == OnlyOrch /\ \E out \in ReadOutcomes : BatchReadDone(out)
OrchBatchCallDone == OnlyOrch /\ \E out \in CallOutcomes : BatchCallDone(out)
OrchCompetitorStart == OnlyOrch /\ \E m \in 0..MaxCompetitors : CompetitorStart(m)
OrchCompetitorReadDone == OnlyOrch /\ \E out \in ReadOutcomes : CompetitorReadDone(out)
OrchCompetitorCallDone == OnlyOrch /\ \E out \in CallOutcomes : CompetitorCallDone(out)
OrchCompetitorSynthesisDone ==
    OnlyOrch /\ \E out \in SynthesisOutcomes : CompetitorSynthesisDone(out)

InitOrch == StoreInit /\ CmpIdle /\ OrchIdle /\ UiIdle
NextOrch ==
    \/ OrchBatchStart
    \/ OrchBatchReadDone
    \/ OrchBatchCallDone
    \/ OrchCompetitorStart
    \/ OrchCompetitorReadDone
    \/ OrchCompetitorCallDone
    \/ OrchCompetitorSynthesisDone
SpecOrch == InitOrch /\ [][NextOrch]_vars

----------------------------------------------------------------------------
(* SpecKeys: the hook installed with a list of shortcuts, one keydown arriving *)

\* Lists given to the hook: the default one, and one whose entries differ in
\* the case of the key and in the meta modifier
CustomShortcuts ==
    << Shortcut("K", TRUE, FALSE, FALSE, FALSE, "first"),
       Shortcut("k", TRUE, FALSE, FALSE, FALSE, "second"),
       Shortcut("x", FALSE, FALSE, FALSE, TRUE, "metaX"),
       Shortcut("j", FALSE, TRUE, TRUE, FALSE, "altShiftJ") >>
ShortcutLists == {getDefaultShortcuts, CustomShortcuts}

EventKeys == {"k", "K", "j", "x", "Enter", "q", "n", "/", "h", ",", "c", "C", "e", "s"}
Targets == [tagName : {"BODY", "DIV", "INPUT", "TEXTAREA"}, isContentEditable : BOOLEAN]
Events == [key : EventKeys, ctrlKey : BOOLEAN, altKey : BOOLEAN, shiftKey : BOOLEAN,
           metaKey : BOOLEAN, target : Targets]

KeysKeyDown ==
    /\ dispatcher.keydowns = 0
    /\ \E event \in Events : KeyDown(event)
    /\ UNCHANGED <<storeVars, cmpVars, orchVars, exporter, exported, pageVars>>

InitKeys ==
    /\ StoreInit
    /\ CmpIdle
    /\ OrchIdle
    /\ ExporterIdle
    /\ exported = NotExported
    /\ PageIdle
    /\ \E shortcuts \in ShortcutLists, enabled \in BOOLEAN :
          dispatcher = Installed(shortcuts, enabled)
NextKeys == KeysKeyDown
SpecKeys == InitKeys /\ [][NextKeys]_vars

----------------------------------------------------------------------------
(* SpecExport: a formatter of exportUtils applied to an analysis result whose *)
(* texts hold quotes, commas, line breaks and backslashes                      *)

Alphabet == {"a", "n", Quote, Comma, Newline, Backslash}

RECURSIVE Texts(_)
\* The texts of at most n characters
Texts(n) ==
    IF n = 0 THEN {<<>>}
    ELSE LET shorter == Texts(n - 1)
         IN  shorter \cup {Append(t, c) : t \in shorter, c \in Alphabet}

Labels == { <<"Hero">>, <<"Hero", Comma, "main">>, <<Quote, "Hero", Quote>>,
            <<"Hero", Newline, "main">> }
KeywordLists == { <<>>, << <<"seo">> >>, << <<"seo">>, <<"content", Comma, "map">> >> }

ExportSection(id, label, keywords, content) ==
    [id |-> id, type |-> "hero", label |-> label, seoScore |-> 70, keywords |-> keywords,
     characterCount |-> Len(content), suggestedContent |-> content]

SecondSection == ExportSection("s2", <<"Footer">>, << <<"links">> >>, <<"a", Quote>>)

\* A result with its optional brandVoiceAnalysis block
SomeExportAnalysis ==
    [sections |-> <<SecondSection>>, overallSeoScore |-> 70, recommendations |-> <<>>,
     pageType |-> <<"Landing Page">>, imageUrl |-> <<"blob:1">>]
WithBrandVoice(analysis) ==
    [f \in DOMAIN analysis \cup {"brandVoiceAnalysis"} |->
        IF f = "brandVoiceAnalysis"
          THEN [detectedTone |-> <<"friendly">>, consistency |-> 80,
                suggestions |-> << <<"Say ", Quote, "you", Quote>>, <<Backslash, "n">> >>]
          ELSE analysis[f]]

\* Results of no section, of one section, and of that section with a second one
ExportAnalyses ==
    LET firsts == {ExportSection("s1", l, k, c) :
                      l \in Labels, k \in KeywordLists, c \in Texts(MaxContentLen)}
        lists == {<<>>} \cup {<<f>> : f \in firsts} \cup {<<f, SecondSection>> : f \in firsts}
        plain == {[sections |-> ss, overallSeoScore |-> 70,
                   recommendations |-> << <<"Add", Quote, "alt", Quote, "texts">> >>,
                   pageType |-> <<"Landing Page">>, imageUrl |-> <<"blob:1">>] : ss \in lists}
    IN  plain \cup {WithBrandVoice(SomeExportAnalysis)}

OnlyExporter == UNCHANGED <<storeVars, cmpVars, orchVars, dispatcher, exported, pageVars>>

ExportCSV == OnlyExporter /\ ExportToCSV
ExportJSON == OnlyExporter /\ ExportToJSON

InitExport ==
    /\ StoreInit
    /\ CmpIdle
    /\ OrchIdle
    /\ DispatcherIdle
    /\ exported = NotExported
    /\ PageIdle
    /\ \E analysis \in ExportAnalyses : exporter = [called |-> "none", analysis |-> analysis]
NextExport ==
    \/ ExportCSV
    \/ ExportJSON
SpecExport == InitExport /\ [][NextExport]_vars

----------------------------------------------------------------------------
(* The instruction text of actionAnalyzeScreenshotEnhanced.  The text is the  *)
(* sequence of its lines, a line the sequence of its pieces: the pieces of    *)
(* the template and the interpolated values; <<>> is a line left empty.       *)

\* brandVoice not given
NoBrandVoice == [given |-> FALSE]

BrandVoice(tone, formalityLevel, targetReadingLevel, sentenceStructure, vocabulary, avoidWords) ==
    [given |-> TRUE, tone |-> tone, formalityLevel |-> formalityLevel,
     targetReadingLevel |-> targetReadingLevel, sentenceStructure |-> sentenceStructure,
     vocabulary |-> vocabulary, avoidWords |-> avoidWords]

\* x || fallback on texts: the empty text is falsy
OrElse(x, fallback) == IF x = <<>> THEN fallback ELSE x

\* brandVoice ? `**Brand Voice Guidelines:** ...` : ''
brandVoiceContext(voice) ==
    IF voice.given
      THEN << <<>>,
              <<"**Brand Voice Guidelines:**">>,
              <<"- Tone: ">> \o voice.tone,
              <<"- Formality Level: ", voice.formalityLevel, "/10">>,
              <<"- Target Reading Level: Grade ", voice.targetReadingLevel>>,
              <<"- Sentence Structure: ">> \o voice.sentenceStructure,
              <<"- Preferred Vocabulary: ">> \o Join(voice.vocabulary, <<", ">>),
              <<"- Words to Avoid: ">> \o Join(voice.avoidWords, <<", ">>),
              <<>> >>
      ELSE << <<>> >>

\* competitorUrls.length > 0 ? `**Competitor Context:** ...` : ''
competitorContext(competitorUrls) ==
    IF Len(competitorUrls) > 0
      THEN << <<"**Competitor Context:** Differentiate from these competitors: ">>
                \o Join(competitorUrls, <<", ">>) >>
      ELSE << <<>> >>

\* ${generateVariants ? '...' : ''}, four times
variantLines(generateVariants) ==
    IF generateVariants
      THEN << <<"- Generate 3-5 CONTENT VARIANTS with different:">>,
              <<"  * Tones: professional, casual, friendly, authoritative, playful, empathetic">>,
              <<"  * Lengths: short (concise), medium (balanced), long (detailed)">>,
              <<"  * Each variant should have predicted CTR and reasoning">> >>
      ELSE << <<>>, <<>>, <<>>, <<>> >>

\* const prompt = `...`
BuildPrompt(websiteUrl, targetAudience, keywords, voice, generateVariants, competitorUrls) ==
    << <<"You are an expert UI/UX analyst, SEO specialist, and conversion copywriter.">>,
       <<"**Context:**">>,
       <<"- Website URL: ">> \o OrElse(websiteUrl, <<"Not provided">>),
       <<"- Target Audience: ">> \o targetAudience,
       <<"- SEO Keywords: ">> \o Join(keywords, <<", ">>) >>
    \o brandVoiceContext(voice)
    \o competitorContext(competitorUrls)
    \o << <<"**Your Mission:**">>,
          <<"1. **Visual Analysis** - Detect ALL content sections">>,
          <<"2. **Content Generation** - For EACH section:">>,
          <<"- Extract current content (if visible text exists)">>,
          <<"- Generate PRIMARY SEO-optimized content">> >>
    \o variantLines(generateVariants)
    \o << <<"- Calculate readability score (Flesch Reading Ease)">>,
          <<"- Analyze sentiment (-1 to 1 scale)">>,
          <<"- Assess brand voice match (0-100)">>,
          <<"3. **Technical SEO Audit**:">>,
          <<"4. **Brand Voice Analysis**:">>,
          <<"5. **Performance Predictions**:">> >>

\* actionAnalyzeScreenshotEnhanced({...}) builds its instruction text
BuildInstruction(websiteUrl, targetAudience, keywords, voice, generateVariants, competitorUrls) ==
    prompter' = [called |-> TRUE,
                 websiteUrl |-> websiteUrl, targetAudience |-> targetAudience,
                 keywords |-> keywords, brandVoice |-> voice,
                 generateVariants |-> generateVariants, competitorUrls |-> competitorUrls,
                 prompt |-> BuildPrompt(websiteUrl, targetAudience, keywords, voice,
                                        generateVariants, competitorUrls)]

----------------------------------------------------------------------------
(* SpecPrompt: one enhanced analysis called with each optional input given    *)
(* or not                                                                     *)

PromptUrls == { <<>>, <<"https://mysite.com">> }
PromptAudiences == { <<>>, <<"marketers">> }
PromptKeywords == { <<>>, << <<"seo">> >>, << <<"seo">>, <<"content">> >> }
PromptBrandVoices ==
    { NoBrandVoice,
      BrandVoice(<<"friendly">>, 5, 8, <<"mixed">>, << <<"simple">>, <<"clear">> >>, <<>>),
      BrandVoice(<<"formal">>, 9, 12, <<"complex">>, <<>>, << <<"cheap">> >>) }
PromptCompetitors == { <<>>, << <<"a.com">> >>, << <<"a.com">>, <<"b.com">> >> }

PromptBuild ==
    /\ prompter = NoPrompt
    /\ \E websiteUrl \in PromptUrls, targetAudience \in PromptAudiences,
          keywords \in PromptKeywords, voice \in PromptBrandVoices,
          generateVariants \in BOOLEAN, competitorUrls \in PromptCompetitors :
          BuildInstruction(websiteUrl, targetAudience, keywords, voice,
                           generateVariants, competitorUrls)
    /\ UNCHANGED <<storeVars, cmpVars, orchVars, dispatcher, exporter, exported, app>>

InitPrompt ==
    /\ StoreInit
    /\ CmpIdle
    /\ OrchIdle
    /\ DispatcherIdle
    /\ ExporterIdle
    /\ exported = NotExported
    /\ PageIdle
NextPrompt == PromptBuild
SpecPrompt == InitPrompt /\ [][NextPrompt]_vars

----------------------------------------------------------------------------
(* SpecDelete: records saved, some of them in the same millisecond with the   *)
(* same random suffix, brand voice, preferences and recent keywords stored,   *)
(* a list with a null element imported, and records deleted by id             *)

MoreDeleteCalls == calls < MaxDeleteCalls

DeleteSave ==
    /\ OnlyStore
    /\ MoreDeleteCalls
    /\ \E rnd \in {0, 1}, tick \in {0, 1} :
          saveAnalysisToHistory(SomeResult, SomeConfig, rnd, tick, FALSE)
DeleteSaveBrandVoice == OnlyStore /\ MoreDeleteCalls /\ saveBrandVoice(SomeProfile, FALSE)
DeleteSavePreferences ==
    OnlyStore /\ MoreDeleteCalls /\ savePreferences([theme |-> "light"], FALSE)
DeleteAddRecentKeyword == OnlyStore /\ MoreDeleteCalls /\ addRecentKeyword(1, FALSE)
DeleteImport ==
    /\ OnlyStore
    /\ MoreDeleteCalls
    /\ \E data \in { Payload(Arr(Imported(1) \o <<NullItem>>), Absent, Absent),
                     Payload(Other, Absent, Absent) } :
          importHistoryFromJSON(data, 0)
DeleteDelete ==
    /\ OnlyStore
    /\ MoreDeleteCalls
    /\ \E id \in IdsToTry, fail \in BOOLEAN : deleteAnalysisFromHistory(id, fail)

InitDelete == StoreInit /\ OthersIdle
NextDelete ==
    \/ DeleteSave
    \/ DeleteSaveBrandVoice
    \/ DeleteSavePreferences
    \/ DeleteAddRecentKeyword
    \/ DeleteImport
    \/ DeleteDelete
SpecDelete == InitDelete /\ [][NextDelete]_vars

----------------------------------------------------------------------------
(* SpecApp: the user uploads files, edits the inputs, clicks Analyze and the *)
(* tabs, in any order, while the requests sent end in any way                 *)

KeywordInputs == { <<>>, <<" ">>, <<",", " ">>, <<" ", "a", ",">>, <<"a", ",", "b">> }
AudienceInputs == { <<>>, <<"d">> }
UrlInputs == { <<>>, <<"u">> }

OnlyApp == UNCHANGED <<storeVars, cmpVars, orchVars, dispatcher, exporter, exported, prompter>>

\* The inputs stand in <TabsContent value="upload">
AppUpload ==
    /\ OnlyApp
    /\ app.currentTab = "upload"
    /\ \E file \in {NoFile, "shot"}, isImage \in BOOLEAN : handleImageUpload(file, isImage)
AppEditKeywords ==
    /\ OnlyApp
    /\ app.currentTab = "upload"
    /\ \E text \in KeywordInputs : setKeywords(text)
AppEditAudience ==
    /\ OnlyApp
    /\ app.currentTab = "upload"
    /\ \E text \in AudienceInputs : setTargetAudience(text)
AppEditUrl ==
    /\ OnlyApp
    /\ app.currentTab = "upload"
    /\ \E text \in UrlInputs : setWebsiteUrl(text)
AppClickAnalyze ==
    /\ OnlyApp
    /\ app.started < MaxRequests
    /\ ClickAnalyze
AppClickTab == OnlyApp /\ \E value \in {"upload", "results"} : ClickTab(value)
AppRequestDone ==
    /\ OnlyApp
    /\ \E id \in app.pending, out \in RequestOutcomes : RequestDone(id, out)

InitApp ==
    /\ StoreInit
    /\ CmpIdle
    /\ OrchIdle
    /\ DispatcherIdle
    /\ ExporterIdle
    /\ exported = NotExported
    /\ PageIdle
NextApp ==
    \/ AppUpload
    \/ AppEditKeywords
    \/ AppEditAudience
    \/ AppEditUrl
    \/ AppClickAnalyze
    \/ AppClickTab
    \/ AppRequestDone
SpecApp == InitApp /\ [][NextApp]_vars

\* The analysis client ends every call: it resolves or rejects
SpecAppLive == SpecApp /\ WF_vars(AppRequestDone)

\* C1: after N saves on an empty store with no storage failure the stored list is
\* the min(N, 50) most recently saved entries, newest first; the entries evicted
\* are exactly the oldest N - 50.
C1_HistoryCap ==
    writeFailures = 0 =>
        LET N == Len(saveLog)
        IN  IF N = 0 THEN history = Absent
            ELSE /\ history.t = "arr"
                 /\ Len(history.v) = Min(N, 50)
                 /\ \A k \in 1..Len(history.v) : history.v[k] = saveLog[N + 1 - k]
                 /\ \A j \in 1..N :
                       (j <= N - 50) <=> ~ Includes(history.v, saveLog[j])

C1_Witness ==
    /\ writeFailures = 0
    /\ Len(saveLog) = 52
    /\ history.t = "arr"
    /\ Len(history.v) = 50

\* C2: under any interleaving of save, delete, clear and import the persisted
\* history list holds at most 50 records.
C2_AtMost50 == history.t = "arr" => Len(history.v) <= 50

\* C3: no persistence operation throws to its caller; each returns normally.
C3_NeverThrows == outcome = "returned"

\* C4: getPreferences() holds every recognized field; each has the value of the
\* most recent savePreferences call that gave it, its default if none did (the
\* writes having been stored), and a savePreferences call changes no field it
\* does not give.
C4_AllFieldsLatest ==
    /\ DOMAIN getPreferences = PrefFields
    /\ writeFailures = 0 =>
         \A f \in PrefFields :
            getPreferences[f] = IF f \in DOMAIN prefLog THEN prefLog[f]
                                ELSE DEFAULT_PREFERENCES[f]

C4_Frame ==
    lastCall' = "savePreferences" /\ calls' # calls =>
        \A f \in PrefFields \ DOMAIN lastArg' : getPreferences'[f] = getPreferences[f]

NoDuplicates(s) == \A i, j \in 1..Len(s) : s[i] = s[j] => i = j

Elements(s) == {s[i] : i \in 1..Len(s)}

\* C5: the recent-keyword list has no duplicates and at most 20 elements (the
\* recent-audience list at most 10); a call with a value not in the list puts it
\* at the front; the call that adds the 21st distinct keyword leaves a list of
\* 20 without the first-added keyword (the writes having been stored).
C5_Lists ==
    /\ NoDuplicates(getRecentKeywords.v) /\ Len(getRecentKeywords.v) <= 20
    /\ NoDuplicates(getRecentAudiences.v) /\ Len(getRecentAudiences.v) <= 10

C5_Step ==
    /\ ( /\ lastCall' = "addRecentKeyword" /\ calls' # calls
         /\ writeFailures' = writeFailures
         /\ ~ Includes(getRecentKeywords.v, lastArg') )
       => /\ getRecentKeywords'.v[1] = lastArg'
          /\ (Len(kwOrder) = 20 /\ Len(kwOrder') = 21 /\ writeFailures' = 0)
                => /\ Len(getRecentKeywords'.v) = 20
                   /\ Elements(getRecentKeywords'.v) = Elements(kwOrder') \ {kwOrder'[1]}
    /\ ( /\ lastCall' = "addRecentAudience" /\ calls' # calls
         /\ writeFailures' = writeFailures
         /\ ~ Includes(getRecentAudiences.v, lastArg') )
       => getRecentAudiences'.v[1] = lastArg'

C6_Step ==
    /\ ( /\ lastCall' = "addRecentKeyword" /\ calls' # calls
         /\ Includes(getRecentKeywords.v, lastArg') )
       => recentKeywords' = recentKeywords
    /\ ( /\ lastCall' = "addRecentAudience" /\ calls' # calls
         /\ Includes(getRecentAudiences.v, lastArg') )
       => recentAudiences' = recentAudiences

C6_RepeatIsNoOp == [][C6_Step]_vars

\* the last call gave the value at the end of a list of several: it is still there
C6_Witness ==
    /\ lastCall = "addRecentKeyword"
    /\ writeFailures = 0
    /\ Len(getRecentKeywords.v) > 2
    /\ getRecentKeywords.v[Len(getRecentKeywords.v)] = lastArg
    /\ kwOrder[1] = lastArg

SectionIdsOf(a) == {a.sections[i].id : i \in 1..Len(a.sections)}
ScoreIn(a, id) == (CHOOSE sec \in Elements(a.sections) : sec.id = id).seoScore

\* C7: for results with unique section ids, sectionsAdded holds the labels (in
\* the second result) of the ids only in the second, sectionsRemoved the labels
\* of the ids only in the first, sectionsImproved / sectionsDeclined the labels
\* (in the second) of the ids in both with a higher / lower score in the second;
\* an id in both with equal scores is in no list, every id is in at most one;
\* seoScoreDelta is the difference of the overall scores and overallImprovement
\* is seoScoreDelta > 0.
C7_Classification ==
    comparison.called =>
        LET r == comparison.value
            ids1 == SectionIdsOf(analysis1)
            ids2 == SectionIdsOf(analysis2)
            both == ids1 \cap ids2
            up == {id \in both : ScoreIn(analysis2, id) > ScoreIn(analysis1, id)}
            down == {id \in both : ScoreIn(analysis2, id) < ScoreIn(analysis1, id)}
            same == {id \in both : ScoreIn(analysis2, id) = ScoreIn(analysis1, id)}
            in2order(ids) == SelectSeq(analysis2.sections, LAMBDA sec : sec.id \in ids)
            in1order(ids) == SelectSeq(analysis1.sections, LAMBDA sec : sec.id \in ids)
            label2of(sec) == (CHOOSE x \in Elements(analysis2.sections) : x.id = sec.id).label
        IN  /\ r.sectionsAdded = MapSeq(in2order(ids2 \ ids1), LAMBDA sec : sec.label)
            /\ r.sectionsRemoved = MapSeq(in1order(ids1 \ ids2), LAMBDA sec : sec.label)
            /\ r.sectionsImproved = MapSeq(in1order(up), label2of)
            /\ r.sectionsDeclined = MapSeq(in1order(down), label2of)
            /\ Len(r.sectionsAdded) + Len(r.sectionsRemoved) + Len(r.sectionsImproved)
                 + Len(r.sectionsDeclined) + Cardinality(same) = Cardinality(ids1 \cup ids2)
            /\ r.seoScoreDelta = analysis2.overallSeoScore - analysis1.overallSeoScore
            /\ r.overallImprovement = (r.seoScoreDelta > 0)

\* one section improved under a new label, one removed, one added
C7_Witness ==
    /\ comparison.called
    /\ comparison.value.sectionsImproved = <<"Hero v2">>
    /\ comparison.value.sectionsRemoved = <<"Features">>
    /\ comparison.value.sectionsAdded = <<"Footer">>
    /\ comparison.value.sectionsDeclined = <<>>
    /\ comparison.value.seoScoreDelta = -20
    /\ ~ comparison.value.overallImprovement

\* C8: actionBatchAnalyze never rejects; it resolves with the results of the
\* analyses that succeeded, in the order of their images, so with as many
\* results as images less the failures.
C8_BatchPartialResults ==
    /\ batch.pc # "rejected"
    /\ batch.pc = "resolved" =>
         LET succeeded == SelectSeq([k \in 1..batch.n |-> k - 1],
                                    LAMBDA i : batch.outcomes[i + 1] = "ok")
             failures == Cardinality({k \in 1..batch.n : batch.outcomes[k] # "ok"})
         IN  /\ Len(batch.outcomes) = batch.n
             /\ batch.returned = MapSeq(succeeded, ResultOf)
             /\ Len(batch.returned) = batch.n - failures

\* three images, the analysis of the second fails: the first and the third return
C8_Witness ==
    /\ batch.pc = "resolved"
    /\ batch.n = 3
    /\ batch.outcomes = <<"ok", "callError", "ok">>
    /\ batch.returned = <<ResultOf(0), ResultOf(2)>>

\* p < q for fractions <<numerator, denominator>>
Less(p, q) == p[1] * q[2] < q[1] * p[2]

\* C9: with onProgress given, a batch of n images reports n + 1 times: i/n*100
\* with the name of image i when its analysis starts, for i = 0 .. n-1 in this
\* order, and 100 after the loop whatever failed; the percentages increase
\* strictly and end with 100.
C9_ProgressReports ==
    batch.hasProgress =>
        /\ batch.pc \in {"reading", "calling"} =>
             /\ Len(batch.progress) = batch.i + 1
             /\ batch.progress[batch.i + 1] =
                    [pct |-> <<batch.i * 100, batch.n>>, currentFile |-> FileName(batch.i)]
             /\ Len(batch.calls) <= batch.i + 1
        /\ batch.pc = "resolved" =>
             /\ Len(batch.progress) = batch.n + 1
             /\ \A k \in 1..batch.n :
                   batch.progress[k] =
                      [pct |-> <<(k - 1) * 100, batch.n>>, currentFile |-> FileName(k - 1)]
             /\ batch.progress[batch.n + 1] = [pct |-> <<100, 1>>, currentFile |-> Completed]
             /\ \A k \in 1..batch.n : Less(batch.progress[k].pct, batch.progress[k + 1].pct)

\* three images, two of them failed: four reports, the last one 100
C9_Witness ==
    /\ batch.hasProgress
    /\ batch.pc = "resolved"
    /\ batch.n = 3
    /\ Len(batch.returned) = 1
    /\ Len(batch.progress) = 4
    /\ batch.progress[3].pct = <<200, 3>>
    /\ batch.progress[4].pct = <<100, 1>>

C11_SynthesisFailureContained ==
    /\ competitor.pc = "rejected" =>
         /\ competitor.synthesis = "none"
         /\ Len(competitor.analyses) <= competitor.m
    /\ competitor.synthesis # "none" => competitor.pc = "resolved"
    /\ (competitor.pc = "resolved" /\ competitor.synthesis \in {"callError", "unparseable"}) =>
         /\ competitor.analyses = [k \in 1..(competitor.m + 1) |-> ResultOf(k - 1)]
         /\ competitor.insights = <<>>

\* two competitors analysed, the synthesis call fails, the comparison resolves
C11_Witness ==
    /\ competitor.pc = "resolved"
    /\ competitor.m = 2
    /\ competitor.synthesis = "callError"
    /\ Len(competitor.analyses) = 3
    /\ competitor.insights = <<>>

\* C12: when the synthesis call answers a JSON array of insight objects, the
\* comparison returns these objects, in order, as its insights.
C12_ArrayReturned ==
    (competitor.pc = "resolved" /\ competitor.synthesis = "array") =>
        competitor.insights = SomeInsights

\* C13: a keydown whose target is an INPUT, a TEXTAREA or a content-editable
\* element invokes no action, whatever the key and the modifiers.
C13_NoActionInTextEntry ==
    (\/ dispatcher.event.target.tagName \in {"INPUT", "TEXTAREA"}
     \/ dispatcher.event.target.isContentEditable)
        => /\ dispatcher.invoked = <<>>
           /\ ~dispatcher.preventDefault

\* Ctrl+K, bound to the search action, pressed inside a content-editable DIV
C13_Witness ==
    /\ dispatcher.enabled
    /\ dispatcher.shortcuts = getDefaultShortcuts
    /\ dispatcher.keydowns = 1
    /\ dispatcher.event.key = "k"
    /\ dispatcher.event.ctrlKey
    /\ ~dispatcher.event.altKey /\ ~dispatcher.event.shiftKey /\ ~dispatcher.event.metaKey
    /\ dispatcher.event.target = [tagName |-> "DIV", isContentEditable |-> TRUE]
    /\ dispatcher.invoked = <<>>

\* The entries of the list that match the event as C14 has it: same key up to
\* case, and each of ctrl, alt, shift, meta pressed exactly when the entry has it
ExactMatches(shortcuts, event) ==
    {i \in 1..Len(shortcuts) :
        /\ toLowerCase(event.key) = toLowerCase(shortcuts[i].key)
        /\ event.ctrlKey = shortcuts[i].ctrl
        /\ event.altKey = shortcuts[i].alt
        /\ event.shiftKey = shortcuts[i].shift
        /\ event.metaKey = shortcuts[i].meta}

\* C14: a keydown outside a text-entry control invokes the action of the first
\* entry that matches it exactly (key up to case, every modifier pressed exactly
\* when the entry specifies it), and nothing when no entry does.
C14_FirstExactMatch ==
    (/\ dispatcher.enabled
     /\ dispatcher.keydowns = 1
     /\ dispatcher.event.target.tagName \notin {"INPUT", "TEXTAREA"}
     /\ ~dispatcher.event.target.isContentEditable)
        => LET m == ExactMatches(dispatcher.shortcuts, dispatcher.event)
           IN  IF m = {} THEN dispatcher.invoked = <<>>
               ELSE dispatcher.invoked =
                      <<dispatcher.shortcuts[CHOOSE i \in m : \A j \in m : i <= j].action>>

\* C15: importing, in any store state, the text exportHistoryAsJSON returned in
\* an earlier state makes getAnalysisHistory, getBrandVoice and getPreferences
\* return what they returned when the text was exported.
C15_RoundTrip ==
    (exported.done /\ exported.imported /\ ret = Bool(TRUE)) =>
        /\ getAnalysisHistory = exported.history
        /\ getBrandVoice = exported.brandVoice
        /\ getPreferences = exported.preferences

\* C16: a call of importHistoryFromJSON that returns false leaves the stored
\* history, brand voice and preferences as they were; a call that returns true
\* has written every record family its payload holds.
C16_Step ==
    (lastCall' = "importHistoryFromJSON" /\ calls' = calls + 1) =>
        /\ ret' = Bool(FALSE) =>
              /\ history' = history
              /\ brandVoice' = brandVoice
              /\ preferences' = preferences
        /\ ret' = Bool(TRUE) =>
              /\ Truthy(lastArg'.history) => history' = lastArg'.history
              /\ Truthy(lastArg'.brandVoice) => brandVoice' = lastArg'.brandVoice
              /\ Truthy(lastArg'.preferences) => preferences' = lastArg'.preferences
C16_AllOrNothing == [][C16_Step]_vars

\* Each quote of the text doubled
Doubled(text) ==
    LET piece(c) == IF c = Quote THEN <<Quote, Quote>> ELSE <<c>>
        RECURSIVE flat(_)
        flat(t) == IF t = <<>> THEN <<>> ELSE piece(t[1]) \o flat(Tail(t))
    IN  flat(text)

RECURSIVE ReadCsvFrom(_, _, _, _, _, _)
\* A reader of comma-separated values: a field that starts with a quote runs to
\* the next quote that is not doubled, a doubled quote in it standing for one;
\* outside such a field a comma ends the field and a line break the record.
ReadCsvFrom(text, i, inQuotes, field, record, records) ==
    IF i > Len(text) THEN Append(records, Append(record, field))
    ELSE LET c == text[i]
         IN  IF inQuotes
               THEN IF c = Quote
                      THEN IF i < Len(text) /\ text[i + 1] = Quote
                             THEN ReadCsvFrom(text, i + 2, TRUE, Append(field, Quote),
                                              record, records)
                             ELSE ReadCsvFrom(text, i + 1, FALSE, field, record, records)
                      ELSE ReadCsvFrom(text, i + 1, TRUE, Append(field, c), record, records)
               ELSE IF c = Quote /\ field = <<>> /\ (i = 1 \/ text[i - 1] \in {Comma, Newline})
                      THEN ReadCsvFrom(text, i + 1, TRUE, field, record, records)
                    ELSE IF c = Comma
                      THEN ReadCsvFrom(text, i + 1, FALSE, <<>>, Append(record, field), records)
                    ELSE IF c = Newline
                      THEN ReadCsvFrom(text, i + 1, FALSE, <<>>, <<>>,
                                       Append(records, Append(record, field)))
                    ELSE ReadCsvFrom(text, i + 1, FALSE, Append(field, c), record, records)

ReadCsv(text) == ReadCsvFrom(text, 1, FALSE, <<>>, <<>>, <<>>)

\* The text holds none of the characters that are special in the format
Plain(text) == \A i \in 1..Len(text) : text[i] \notin {Quote, Comma, Newline}

\* C18: in the row of every section the content field is the suggestedContent
\* with each quote doubled, between one pair of quotes; read back, the field
\* gives the suggestedContent, also from the whole document when the other
\* fields of the row hold no comma, quote or line break.
C18_ContentQuoted ==
    exporter.called = "exportToCSV" =>
        \A k \in 1..Len(exporter.analysis.sections) :
            LET section == exporter.analysis.sections[k]
                content == section.suggestedContent
                field == exporter.rows[k][6]
            IN  /\ field = <<Quote>> \o Doubled(content) \o <<Quote>>
                /\ ReadCsv(field) = << <<content>> >>
                /\ (\A j \in 1..Len(exporter.analysis.sections) :
                       /\ Plain(exporter.analysis.sections[j].label)
                       /\ \A w \in 1..Len(exporter.analysis.sections[j].keywords) :
                             Plain(exporter.analysis.sections[j].keywords[w]))
                     => ReadCsv(exporter.text)[k + 1][6] = content

\* a content of a quote and a line break, in a row whose other fields are plain
C18_Witness ==
    /\ exporter.called = "exportToCSV"
    /\ Len(exporter.analysis.sections) = 2
    /\ exporter.analysis.sections[1].label = <<"Hero">>
    /\ exporter.analysis.sections[1].keywords = << <<"seo">> >>
    /\ exporter.analysis.sections[1].suggestedContent = <<Quote, Newline>>
    /\ exporter.rows[1][6] = <<Quote, Quote, Quote, Newline, Quote>>
    /\ ReadCsv(exporter.text)[2][6] = <<Quote, Newline>>

\* C19: the document exportToCSV returns for a result of n sections reads as a
\* header record and n records, each of six fields, whatever the labels,
\* keywords and contents hold.
C19_SixFields ==
    exporter.called = "exportToCSV" =>
        LET records == ReadCsv(exporter.text)
        IN  /\ Len(records) = Len(exporter.analysis.sections) + 1
            /\ \A k \in 1..Len(records) : Len(records[k]) = 6

\* C17: the text exportToJSON returns parses, and parses to the result it was
\* given: the same fields in the same order with the same values, the
\* optional block included when the result has it.
C17_JsonFaithful ==
    exporter.called = "exportToJSON" =>
        /\ JSONparse(exporter.text).ok
        /\ JSONparse(exporter.text).value = JsAnalysis(exporter.analysis)

\* a result with the optional block, texts holding quotes and a backslash
C17_Witness ==
    /\ exporter.called = "exportToJSON"
    /\ "brandVoiceAnalysis" \in DOMAIN exporter.analysis
    /\ exporter.analysis.sections[1].suggestedContent = <<"a", Quote>>
    /\ exporter.analysis.brandVoiceAnalysis.suggestions[2] = <<Backslash, "n">>
    /\ JSONparse(exporter.text).value = JsAnalysis(exporter.analysis)

\* The number of times a keyword stands in the config.keywords of the records
Occurrences(h, keyword) ==
    Cardinality({p \in (1..Len(h)) \X (1..12) :
                    /\ p[2] <= Len(h[p[1]].config.keywords)
                    /\ h[p[1]].config.keywords[p[2]] = keyword})

\* C20, the value: getAnalysisStatistics returns the length of the history, the
\* mean of the overallSeoScore of its records, and at most 10 keywords, each
\* once, with its number of occurrences over all config.keywords, in
\* non-increasing order of that number; for an empty history zero, zero and
\* empty lists.
C20_Value ==
    (lastCall = "getAnalysisStatistics" /\ outcome = "returned") =>
        LET h == getAnalysisHistory.v
            stats == ret.v
            top == stats.topKeywords
        IN  /\ stats.totalAnalyses = Len(h)
            /\ h = <<>> => /\ stats.averageSeoScore = <<0, 1>>
                           /\ top = <<>>
                           /\ stats.analysisOverTime = <<>>
                           /\ stats.topPageTypes = <<>>
            /\ h # <<>> => /\ stats.averageSeoScore[2] = Len(h)
                           /\ stats.averageSeoScore[1] = SumScores(h)
            /\ Len(top) <= 10
            /\ \A i \in 1..Len(top) :
                  /\ top[i].count = Occurrences(h, top[i].key)
                  /\ top[i].count >= 1
                  /\ \A j \in 1..Len(top) : i < j => /\ top[i].count >= top[j].count
                                                     /\ top[i].key # top[j].key

\* C20, the frame: a call of getAnalysisStatistics changes nothing stored
C20_Frame ==
    (lastCall' = "getAnalysisStatistics" /\ calls' = calls + 1) =>
        UNCHANGED <<history, brandVoice, preferences, recentKeywords, recentAudiences>>

\* C20: getAnalysisStatistics is a pure aggregation of the current history
C20_PureAggregation == [] C20_Value /\ [][C20_Frame]_vars

\* three records with thirteen keywords, twelve of them distinct: ten returned,
\* the one that occurs twice first although it was met sixth
C20_Witness ==
    /\ lastCall = "getAnalysisStatistics"
    /\ outcome = "returned"
    /\ ret.v.totalAnalyses = 3
    /\ ret.v.averageSeoScore = <<185, 3>>
    /\ Len(ret.v.topKeywords) = 10
    /\ ret.v.topKeywords[1] = [key |-> "k6", count |-> 2]
    /\ ret.v.topKeywords[2] = [key |-> "k1", count |-> 1]

\* C21: a request is only sent with an image file, at least one keyword, every
\* keyword non-empty and trimmed, and a non-empty target audience.
C21_RequestNeedsInputs ==
    /\ app.started = 0 => app.lastRequest = NoRequest /\ app.pending = {}
    /\ app.started > 0 =>
         LET r == app.lastRequest
         IN  /\ r.imageFile # NoFile
             /\ Len(r.keywords) >= 1
             /\ \A k \in 1..Len(r.keywords) :
                   /\ r.keywords[k] # <<>>
                   /\ r.keywords[k][1] # " "
                   /\ r.keywords[k][Len(r.keywords[k])] # " "
             /\ r.targetAudience # <<>>

\* a request sent with the keyword input " a," parsed to the one keyword a
C21_Witness ==
    /\ app.started = 1
    /\ app.keywords = <<" ", "a", ",">>
    /\ app.lastRequest.keywords = << <<"a">> >>
    /\ app.lastRequest.imageFile = "shot"
    /\ app.pending = {1}

\* C22: a step in which a request ends in a rejection leaves no analysis, a
\* non-empty error, busy false and the upload tab active.
C22_Step ==
    \A id \in app.pending :
        (id \notin app'.pending /\ app'.lastOutcome \in Rejections) =>
            /\ app'.analysis = NoAnalysis
            /\ app'.error # ""
            /\ app'.busy = FALSE
            /\ app'.currentTab = "upload"

C22_FailureSettles == [][C22_Step]_vars

\* the second request was rejected after the first one had shown its result
C22_Witness ==
    /\ app.started = 2
    /\ app.pending = {}
    /\ app.lastOutcome \in Rejections
    /\ app.error # ""
    /\ app.analysis = NoAnalysis

\* C24: at most one analysis request is in flight, and an analysis on display
\* is the result of the request started last.
C24_OneInFlight ==
    /\ Cardinality(app.pending) <= 1
    /\ app.busy <=> app.pending # {}
    /\ app.pending \subseteq {app.started}
    /\ app.analysis # NoAnalysis => app.analysis.request = app.started

\* the result of the second request is on display, nothing in flight
C24_Witness ==
    /\ app.started = 2
    /\ app.pending = {}
    /\ app.analysis # NoAnalysis
    /\ app.analysis.request = 2
    /\ app.currentTab = "results"

\* C28: busy = true is always followed by busy = false, the client ending
\* every call.
C28_BusyEnds == app.busy ~> ~app.busy

\* a request has ended in a rejection and the page is idle again
C28_Witness ==
    /\ app.started = 1
    /\ app.lastOutcome = "errorEvent"
    /\ ~app.busy
    /\ app.pending = {}

\* C29: the results tab is active only with an analysis to show.
C29_ResultsNeedAnalysis == app.currentTab = "results" => app.analysis # NoAnalysis

\* the user is back on the results tab of the first analysis
C29_Witness ==
    /\ app.currentTab = "results"
    /\ app.started = 1
    /\ app.analysis.request = 1
    /\ app.lastOutcome = "noSections"

\* C23: the model calls of a comparison are, in this order, the analysis of
\* yourScreenshot with the caller's websiteUrl and generateVariants true, the
\* analysis of each competitor screenshot in input order with websiteUrl
\* 'Competitor' and generateVariants false, and one synthesis call after all
\* of them; the competitor analyses returned are those of the input, in order.
C23_CallOrder ==
    LET c == competitor
        n == Len(c.calls)
    IN  /\ n <= c.m + 2
        /\ \A k \in 1..n :
              c.calls[k] =
                 IF k = 1
                   THEN [kind |-> "analyze",
                         args |-> [imageFile |-> FileName(0), websiteUrl |-> CallerUrl,
                                   generateVariants |-> TRUE]]
                 ELSE IF k <= c.m + 1
                   THEN [kind |-> "analyze",
                         args |-> [imageFile |-> FileName(k - 1), websiteUrl |-> "Competitor",
                                   generateVariants |-> FALSE]]
                 ELSE [kind |-> "synthesis", args |-> AnalyzeArgs(-1, "", FALSE)]
        /\ Len(c.analyses) <= c.m + 1
        /\ \A k \in 1..Len(c.analyses) : c.analyses[k] = ResultOf(k - 1)
        /\ c.pc \in {"synthesis", "resolved"} =>
              /\ n = c.m + 2
              /\ Len(c.analyses) = c.m + 1
        /\ c.pc \in {"reading", "calling"} => Len(c.analyses) = c.i

\* a comparison with two competitors has resolved after its four calls
C23_Witness ==
    /\ competitor.pc = "resolved"
    /\ competitor.m = 2
    /\ Len(competitor.calls) = 4
    /\ Len(competitor.analyses) = 3

\* C27: a failed analysis (file read or model call, primary or competitor)
\* rejects the comparison at once: no further model call, nothing returned.
C27_Step ==
    LET c == competitor
        d == competitor'
    IN  /\ (c.pc = "reading" /\ d # c /\ d.calls = c.calls) => d.pc = "rejected"
        /\ (c.pc = "calling" /\ d # c /\ d.analyses = c.analyses) =>
              d.pc = "rejected" /\ d.calls = c.calls
        /\ c.pc = "rejected" => d = c
        /\ d.pc = "rejected" => d.inFlight = 0 /\ d.insights = <<>> /\ d.synthesis = "none"
        /\ d.pc = "resolved" => Len(d.analyses) = d.m + 1

C27_FailFast == [][C27_Step]_vars

\* the analysis of the first of two competitors failed at its model call
C27_Witness ==
    /\ competitor.pc = "rejected"
    /\ competitor.m = 2
    /\ competitor.i = 1
    /\ Len(competitor.calls) = 2
    /\ Len(competitor.analyses) = 1

\* The chord of a shortcut: its key ignoring case, and its ctrl, alt and shift
Chord(shortcut) ==
    <<toLowerCase(shortcut.key), shortcut.ctrl, shortcut.alt, shortcut.shift>>

\* The keydown that presses the chord of a shortcut outside any text entry
ChordEvent(shortcut) ==
    [key |-> shortcut.key, ctrlKey |-> shortcut.ctrl, altKey |-> shortcut.alt,
     shiftKey |-> shortcut.shift, metaKey |-> FALSE,
     target |-> [tagName |-> "BODY", isContentEditable |-> FALSE]]

\* The index of the first entry the loop of handleKeyDown stops at, 0 if none
FirstMatch(shortcuts, event) ==
    LET hits == {i \in 1..Len(shortcuts) : Matches(shortcuts[i], event)}
    IN  IF hits = {} THEN 0 ELSE CHOOSE i \in hits : \A j \in hits : i <= j

\* C30: no two entries of getDefaultShortcuts have the same chord; the keydown
\* of each entry's chord stops the loop at that entry and invokes its action,
\* and a dispatcher installed with the table does so.
C30_DefaultsDistinct ==
    LET table == getDefaultShortcuts
        idx == 1..Len(table)
    IN  /\ \A i, j \in idx : i < j => Chord(table[i]) # Chord(table[j])
        /\ \A i \in idx :
              /\ FirstMatch(table, ChordEvent(table[i])) = i
              /\ handleKeyDown(table, TRUE, ChordEvent(table[i])) = <<table[i].action>>
        /\ (dispatcher.shortcuts = table /\ dispatcher.enabled /\ dispatcher.keydowns = 1) =>
              \A i \in idx :
                 dispatcher.event = ChordEvent(table[i]) =>
                    dispatcher.invoked = <<table[i].action>>

\* plain k pressed on the default table: the sixth entry fires, the third
\* (ctrl+k) standing before it
C30_Witness ==
    /\ dispatcher.shortcuts = getDefaultShortcuts
    /\ dispatcher.enabled
    /\ dispatcher.keydowns = 1
    /\ dispatcher.event = ChordEvent(getDefaultShortcuts[6])
    /\ dispatcher.invoked = <<"prevSection">>

\* The elements of s at the positions of keep, in the order of s
Restrict(s, keep) ==
    LET nth(k) == CHOOSE i \in keep : Cardinality({j \in keep : j <= i}) = k
    IN  [k \in 1..Cardinality(keep) |-> s[nth(k)]]

\* C26: a call of deleteAnalysisFromHistory(id) whose write is stored leaves
\* exactly the records with another id, in their order (the whole list when no
\* record has the id); no call removes a record with another id or changes
\* brand voice, preferences or the recency lists.
C26_Step ==
    (lastCall' = "deleteAnalysisFromHistory" /\ calls' = calls + 1) =>
        LET id == lastArg'
            before == getAnalysisHistory
            after == getAnalysisHistory'
        IN  /\ brandVoice' = brandVoice
            /\ preferences' = preferences
            /\ recentKeywords' = recentKeywords
            /\ recentAudiences' = recentAudiences
            /\ IF before.t = "arr" /\ ~ HasNull(before.v)
                 THEN /\ after.t = "arr"
                      /\ IF writeFailures' = writeFailures
                           THEN after.v = Restrict(before.v,
                                              {i \in 1..Len(before.v) : before.v[i].id # id})
                           ELSE after.v = before.v
                      /\ (\A i \in 1..Len(before.v) : before.v[i].id # id) =>
                            after.v = before.v
                 ELSE history' = history

C26_WitnessDuplicates ==
    /\ lastCall = "deleteAnalysisFromHistory"
    /\ writeFailures = 0
    /\ Len(saveLog) = 3
    /\ saveLog[1].id = lastArg
    /\ saveLog[2].id = lastArg
    /\ saveLog[3].id # lastArg
    /\ history = Arr(<<saveLog[3]>>)

\* The instruction text holds a line that starts with the piece
Mentions(prompt, piece) ==
    \E l \in 1..Len(prompt) : prompt[l] # <<>> /\ prompt[l][1] = piece

\* C25: the instruction text holds the website URL line, the brand voice
\* block, the competitor line and the variant instructions exactly when the
\* input is given: nothing about a field that is absent or empty.
C25_OnlyWhenPresent ==
    prompter.called =>
        /\ Mentions(prompter.prompt, "- Website URL: ") <=> prompter.websiteUrl # <<>>
        /\ Mentions(prompter.prompt, "**Brand Voice Guidelines:**") <=> prompter.brandVoice.given
        /\ Mentions(prompter.prompt,
                    "**Competitor Context:** Differentiate from these competitors: ")
              <=> prompter.competitorUrls # <<>>
        /\ Mentions(prompter.prompt, "- Generate 3-5 CONTENT VARIANTS with different:")
              <=> prompter.generateVariants

====
